---- MODULE Spec2Model ----
(***************************************************************************)
(* eslint-plugin-functype: the rule visitors (pattern detectors) and their *)
(* fix callbacks, run over a parsed file by the host engine.               *)
(*                                                                         *)
(* A file is a syntax tree; every node is a record                         *)
(*     [type |-> <ESTree type tag>, name |-> <string>, kids |-> <children>]*)
(* and a node of the tree is addressed by its path (child indices from the *)
(* root), so node.parent is the path without its last index.  Source text  *)
(* is a string; sourceCode.getText(node) is GetText(node).                 *)
(***************************************************************************)
EXTENDS Integers, Sequences, FiniteSets, TLC

VARIABLES
  rule,      \* the detector the engine runs
  options,   \* context.options[0]
  filename,  \* context.getFilename()
  ast,       \* the parsed file
  text,      \* the source text of the file
  todo,      \* the nodes the traversal has not visited yet, in order
  reports,   \* the reports collected in this pass
  pass,      \* 1: the first lint pass, 2: the pass after a fix was applied
  applied    \* the report whose fix was applied (pass 2)

vars == <<rule, options, filename, ast, text, todo, reports, pass, applied>>

-----------------------------------------------------------------------------
(* Strings: the String.prototype methods and regular expressions the rules *)
(* use, computed character by character.                                   *)

CharAt(s, i) == SubSeq(s, i, i)

startsWith(s, prefix) ==
  /\ Len(prefix) <= Len(s)
  /\ SubSeq(s, 1, Len(prefix)) = prefix

endsWith(s, suffix) ==
  /\ Len(suffix) <= Len(s)
  /\ SubSeq(s, Len(s) - Len(suffix) + 1, Len(s)) = suffix

\* whether sub occurs in s at (1-based) position i
OccursAt(s, sub, i) ==
  /\ i >= 1
  /\ i + Len(sub) - 1 <= Len(s)
  /\ SubSeq(s, i, i + Len(sub) - 1) = sub

\* String.prototype.indexOf, 1-based; 0 when sub does not occur
indexOf(s, sub) ==
  LET hits == {i \in 1..Len(s) : OccursAt(s, sub, i)}
  IN IF hits = {} THEN 0 ELSE CHOOSE i \in hits : \A j \in hits : i <= j

includes(s, sub) == \E i \in 1..Len(s) : OccursAt(s, sub, i)

WordChars ==
  {"a","b","c","d","e","f","g","h","i","j","k","l","m","n","o","p","q","r",
   "s","t","u","v","w","x","y","z","A","B","C","D","E","F","G","H","I","J",
   "K","L","M","N","O","P","Q","R","S","T","U","V","W","X","Y","Z","0","1",
   "2","3","4","5","6","7","8","9","_"}

UpperAlphabet == "ABCDEFGHIJKLMNOPQRSTUVWXYZ"
LowerAlphabet == "abcdefghijklmnopqrstuvwxyz"

\* \w
IsWordChar(c) == c \in WordChars

\* \s (the only white space the rendered sources contain)
IsSpace(c) == c = " "

LowerChar(c) ==
  IF \E i \in 1..26 : CharAt(UpperAlphabet, i) = c
  THEN CharAt(LowerAlphabet, CHOOSE i \in 1..26 : CharAt(UpperAlphabet, i) = c)
  ELSE c

RECURSIVE toLowerCase(_)
toLowerCase(s) ==
  IF s = "" THEN "" ELSE LowerChar(CharAt(s, 1)) \o toLowerCase(Tail(s))

\* \b between position i-1 and i of s (i in 1..Len(s)+1)
WordBoundary(s, i) ==
  LET before == i > 1 /\ IsWordChar(CharAt(s, i - 1))
      after  == i <= Len(s) /\ IsWordChar(CharAt(s, i))
  IN before # after

\* the first position >= i of s that holds no white space (\s* consumed)
RECURSIVE SkipSpaces(_, _)
SkipSpaces(s, i) ==
  IF i <= Len(s) /\ IsSpace(CharAt(s, i)) THEN SkipSpaces(s, i + 1) ELSE i

\* text.replace(start, end) of the engine's fixer: the 0-based range
\* [start, start + len) of s replaced by new
ReplaceRange(s, start, len, new) ==
  SubSeq(s, 1, start) \o new \o SubSeq(s, start + len + 1, Len(s))

-----------------------------------------------------------------------------
(* Syntax trees.                                                           *)

Node(type, name, kids) == [type |-> type, name |-> name, kids |-> kids]

RECURSIVE NodeAt(_, _)
NodeAt(root, path) ==
  IF path = <<>> THEN root ELSE NodeAt(root.kids[Head(path)], Tail(path))

\* node.parent
ParentPath(path) == SubSeq(path, 1, Len(path) - 1)

\* the paths of the proper ancestors of the node at path, nearest first is
\* Len(path)-1, the root is 0
AncestorPaths(path) == {SubSeq(path, 1, k) : k \in 0..(Len(path) - 1)}

RECURSIVE PrefixAll(_, _)
PrefixAll(i, paths) ==
  IF paths = <<>> THEN <<>>
  ELSE <<(<<i>> \o Head(paths))>> \o PrefixAll(i, Tail(paths))

\* the engine's traversal: every node once, parents before children, in
\* source order
RECURSIVE PreOrder(_)
RECURSIVE PreOrderKids(_, _)
PreOrder(n) == <<(<<>>)>> \o PreOrderKids(n, 1)
PreOrderKids(n, i) ==
  IF i > Len(n.kids) THEN <<>>
  ELSE PrefixAll(i, PreOrder(n.kids[i])) \o PreOrderKids(n, i + 1)

RECURSIVE ReplaceAt(_, _, _)
ReplaceAt(root, path, new) ==
  IF path = <<>> THEN new
  ELSE [root EXCEPT !.kids[Head(path)] = ReplaceAt(@, Tail(path), new)]

-----------------------------------------------------------------------------
(* Source text.  The text of a node is laid out by a template: literal     *)
(* pieces and children, in order.  GetText is sourceCode.getText(node) and *)
(* RangeStart is node.range[0] relative to the root.                       *)

Lit(s) == [k |-> 0, s |-> s]
Kid(i) == [k |-> i, s |-> ""]

\* children from..to separated by sep
RECURSIVE JoinKids(_, _, _)
JoinKids(from, to, sep) ==
  IF from > to THEN <<>>
  ELSE IF from = to THEN <<Kid(from)>>
  ELSE <<Kid(from), Lit(sep)>> \o JoinKids(from + 1, to, sep)

KeywordTypes ==
  {"TSNullKeyword", "TSUndefinedKeyword", "TSStringKeyword", "TSNumberKeyword"}

Template(n) ==
  LET c == Len(n.kids) IN
  CASE n.type = "Program" -> JoinKids(1, c, "; ")
    [] n.type = "ImportDeclaration" ->
         IF c >= 1 /\ n.kids[1].type = "ImportSpecifier"
         THEN <<Lit("import { ")>> \o JoinKids(1, c, ", ")
                \o <<Lit(" } from '" \o n.name \o "'")>>
         ELSE <<Lit("import ")>> \o JoinKids(1, c, ", ")
                \o <<Lit(" from '" \o n.name \o "'")>>
    [] n.type = "ImportSpecifier" -> <<Lit(n.name)>>
    [] n.type = "ImportDefaultSpecifier" -> <<Lit(n.name)>>
    [] n.type = "ImportNamespaceSpecifier" -> <<Lit("* as " \o n.name)>>
    [] n.type = "VariableDeclaration" ->
         <<Lit(n.name \o " ")>> \o JoinKids(1, c, ", ")
    [] n.type = "VariableDeclarator" ->
         IF c = 2 THEN <<Kid(1), Lit(" = "), Kid(2)>> ELSE <<Kid(1)>>
    [] n.type = "FunctionDeclaration" ->
         IF c = 3 THEN <<Lit("function "), Kid(1), Lit("()"), Kid(2), Lit(" "), Kid(3)>>
         ELSE <<Lit("function "), Kid(1), Lit("() "), Kid(2)>>
    [] n.type = "Identifier" -> <<Lit(n.name)>> \o JoinKids(1, c, "")
    [] n.type = "Literal" -> <<Lit(n.name)>>
    [] n.type = "TSTypeAnnotation" -> <<Lit(": "), Kid(1)>>
    [] n.type = "TSUnionType" -> JoinKids(1, c, " | ")
    [] n.type \in KeywordTypes -> <<Lit(n.name)>>
    [] n.type = "TSTypeReference" -> <<Lit(n.name)>> \o JoinKids(1, c, "")
    [] n.type = "TSTypeParameterInstantiation" ->
         <<Lit("<")>> \o JoinKids(1, c, ", ") \o <<Lit(">")>>
    [] n.type = "TSArrayType" -> <<Kid(1), Lit("[]")>>
    [] n.type = "MemberExpression" ->
         IF n.name = "[" THEN <<Kid(1), Lit("["), Kid(2), Lit("]")>>
         ELSE <<Kid(1), Lit("."), Kid(2)>>
    [] n.type = "CallExpression" ->
         \* name: the white space before "(", or a comment after it
         <<Kid(1), Lit(IF startsWith(n.name, "/*") THEN "(" \o n.name ELSE n.name \o "(")>>
           \o JoinKids(2, c, ", ") \o <<Lit(")")>>
    [] n.type = "ArrowFunctionExpression" ->
         IF c = 2 /\ n.kids[1].kids = <<>>
         THEN <<Kid(1), Lit(" => "), Kid(2)>>
         ELSE <<Lit("(")>> \o JoinKids(1, c - 1, ", ") \o <<Lit(") => "), Kid(c)>>
    [] n.type = "ArrayExpression" ->
         <<Lit("[")>> \o JoinKids(1, c, ", ") \o <<Lit("]")>>
    [] n.type \in {"BinaryExpression", "LogicalExpression"} ->
         \* a logical expression on the right stands in parentheses
         IF n.kids[2].type = "LogicalExpression"
         THEN <<Kid(1), Lit(" " \o n.name \o " ("), Kid(2), Lit(")")>>
         ELSE <<Kid(1), Lit(" " \o n.name \o " "), Kid(2)>>
    [] n.type = "ConditionalExpression" ->
         <<Kid(1), Lit(" ? "), Kid(2), Lit(" : "), Kid(3)>>
    [] n.type = "BlockStatement" ->
         \* name: "\n" for a block laid out with one statement per line
         IF c = 0 THEN <<Lit("{}")>>
         ELSE IF n.name = "\n"
         THEN <<Lit("{\n  ")>> \o JoinKids(1, c, "\n  ") \o <<Lit("\n}")>>
         ELSE <<Lit("{ ")>> \o JoinKids(1, c, "; ") \o <<Lit(" }")>>
    [] n.type = "FunctionExpression" -> <<Lit("function" \o n.name \o " () "), Kid(c)>>
    [] n.type = "YieldExpression" -> <<Lit("yield" \o n.name \o " "), Kid(1)>>
    [] n.type = "ExpressionStatement" -> <<Kid(1)>>
    [] n.type = "ReturnStatement" ->
         IF c = 0 THEN <<Lit("return")>> ELSE <<Lit("return "), Kid(1)>>
    [] n.type = "ThrowStatement" -> <<Lit("throw "), Kid(1)>>
    [] n.type = "TryStatement" ->
         IF n.name = "finally" THEN <<Lit("try "), Kid(1), Lit(" finally "), Kid(2)>>
         ELSE IF c = 3
         THEN <<Lit("try "), Kid(1), Lit(" "), Kid(2), Lit(" finally "), Kid(3)>>
         ELSE <<Lit("try "), Kid(1), Lit(" "), Kid(2)>>
    [] n.type = "CatchClause" -> <<Lit("catch (" \o n.name \o ") "), Kid(1)>>
    [] n.type = "IfStatement" ->
         IF c = 3
         THEN <<Lit("if ("), Kid(1), Lit(") "), Kid(2), Lit(" else "), Kid(3)>>
         ELSE <<Lit("if ("), Kid(1), Lit(") "), Kid(2)>>
    [] n.type = "ForStatement" ->
         <<Lit("for ("), Kid(1), Lit("; "), Kid(2), Lit("; "), Kid(3), Lit(") "), Kid(4)>>
    [] n.type = "ForInStatement" ->
         <<Lit("for ("), Kid(1), Lit(" in "), Kid(2), Lit(") "), Kid(3)>>
    [] n.type = "ForOfStatement" ->
         <<Lit("for ("), Kid(1), Lit(" of "), Kid(2), Lit(") "), Kid(3)>>
    [] n.type = "WhileStatement" -> <<Lit("while ("), Kid(1), Lit(") "), Kid(2)>>
    [] n.type = "DoWhileStatement" ->
         <<Lit("do "), Kid(1), Lit(" while ("), Kid(2), Lit(")")>>
    [] n.type = "UpdateExpression" -> <<Kid(1), Lit(n.name)>>
    [] n.type = "AssignmentExpression" ->
         <<Kid(1), Lit(" " \o n.name \o " "), Kid(2)>>
    [] OTHER -> <<Lit(n.name)>>

RECURSIVE GetText(_)
RECURSIVE RenderItems(_, _)
GetText(n) == RenderItems(n, Template(n))
RenderItems(n, items) ==
  IF items = <<>> THEN ""
  ELSE (IF Head(items).k = 0 THEN Head(items).s ELSE GetText(n.kids[Head(items).k]))
         \o RenderItems(n, Tail(items))

\* the length of the text laid out before child i of n
RECURSIVE LengthBefore(_, _, _)
LengthBefore(n, items, i) ==
  IF items = <<>> \/ Head(items).k = i THEN 0
  ELSE (IF Head(items).k = 0 THEN Len(Head(items).s)
        ELSE Len(GetText(n.kids[Head(items).k])))
         + LengthBefore(n, Tail(items), i)

\* node.range[0] of the node at path, counted from the start of root's text
RECURSIVE RangeStart(_, _)
RangeStart(root, path) ==
  IF path = <<>> THEN 0
  ELSE LengthBefore(root, Template(root), Head(path))
         + RangeStart(root.kids[Head(path)], Tail(path))


-----------------------------------------------------------------------------
(* Node accessors (undefined is the empty string: no identifier is empty). *)

Undefined == ""

callee(n) == n.kids[1]
arguments(n) == Tail(n.kids)
object(n) == n.kids[1]
property(n) == n.kids[2]

\* x.name of a node that may not be an Identifier
NameOf(n) == IF n.type \in {"Identifier", "PrivateIdentifier"} THEN n.name ELSE Undefined

\* the rule context: the parsed file, the rule options and the file name
Context == [ast |-> ast, options |-> options, filename |-> filename]

NoFix == [kind |-> "none", text |-> ""]
NullFix == [kind |-> "null", text |-> ""]
\* fixer.replaceText(node, text) for the reported node
ReplaceText(t) == [kind |-> "replaceText", text |-> t]

\* context.report({node, messageId, data, fix})
Report(path, messageId, data, fix) ==
  [node |-> path, messageId |-> messageId, data |-> data, fix |-> fix]

NoData == [none |-> ""]

-----------------------------------------------------------------------------
(* utils/functype-detection.ts                                             *)

\* a registry that takes the specifiers of every import declaration
ImportedSpecifiers_AnySource(program) ==
  UNION { {<<d, i>> : i \in 1..Len(program.kids[d].kids)} :
          d \in {d \in 1..Len(program.kids) :
                   program.kids[d].type = "ImportDeclaration"} }

\* getFunctypeImports: the import registry of the file
ImportedSpecifiers(program) ==
  UNION { {<<d, i>> : i \in 1..Len(program.kids[d].kids)} :
          d \in {d \in 1..Len(program.kids) :
                   /\ program.kids[d].type = "ImportDeclaration"
                   /\ program.kids[d].name = "functype"} }

FunctypeTypeNames == {"Option", "Either", "List", "LazyList", "Task", "Try"}

getFunctypeImports(program) ==
  LET specs == {program.kids[s[1]].kids[s[2]] : s \in ImportedSpecifiers(program)}
      named == {sp.name : sp \in {x \in specs : x.type = "ImportSpecifier"}}
      hasDefault == \E sp \in specs : sp.type = "ImportDefaultSpecifier"
      hasNamespace == \E sp \in specs : sp.type = "ImportNamespaceSpecifier"
  IN [types |-> (named \cap FunctypeTypeNames)
                  \cup (IF hasNamespace THEN {"*"} ELSE {}),
      functions |-> (named \ FunctypeTypeNames)
                  \cup (IF hasDefault THEN {"default"} ELSE {})
                  \cup (IF hasNamespace THEN {"*"} ELSE {}),
      all |-> named \cup (IF hasDefault THEN {"default"} ELSE {})
                  \cup (IF hasNamespace THEN {"*"} ELSE {})]

getFunctypeImportsLegacy(program) == getFunctypeImports(program).all

\* isFunctypeType(node, types): types is the set the caller hands over (the
\* legacy callers hand over the 'all' set)
isFunctypeType(node, types) ==
  /\ node.type = "TSTypeReference"
  /\ node.name \in (types \cup FunctypeTypeNames)

CommonFunctypeMethods ==
  {"map", "flatMap", "filter", "fold", "foldLeft", "foldRight", "getOrElse",
   "orElse", "isEmpty", "nonEmpty", "isDefined", "isSome", "isNone", "isLeft",
   "isRight", "toArray"}

isFunctypeCall(node, functypeImports) ==
  /\ node.type = "CallExpression"
  /\ \/ /\ callee(node).type = "MemberExpression"
        /\ object(callee(node)).type = "Identifier"
        /\ LET objectName == object(callee(node)).name
               methodName == NameOf(property(callee(node)))
           IN \/ objectName \in functypeImports
              \/ objectName = "Option" /\ methodName \in {"some", "none", "of"}
              \/ objectName = "Either" /\ methodName \in {"left", "right", "of"}
              \/ objectName = "List" /\ methodName \in {"of", "from", "empty"}
     \/ /\ callee(node).type = "MemberExpression"
        /\ NameOf(property(callee(node))) \in CommonFunctypeMethods

isAlreadyUsingFunctype(root, path, functypeImports) ==
  \E a \in AncestorPaths(path) :
     \/ isFunctypeCall(NodeAt(root, a), functypeImports)
     \/ isFunctypeType(NodeAt(root, a), functypeImports)

-----------------------------------------------------------------------------
(* rules/prefer-option (the variant with functype detection)               *)

IsNullishType(t) == t.type \in {"TSNullKeyword", "TSUndefinedKeyword"}
IsNonNullType(t) == ~IsNullishType(t)

\* prefer-option with the arm count check dropped: any union with a null arm
preferOption_TSUnionType_AnyArms(ctx, path) ==
  LET node == NodeAt(ctx.ast, path)
      functypeImports == getFunctypeImportsLegacy(ctx.ast)
      hasNull == \E i \in 1..Len(node.kids) : IsNullishType(node.kids[i])
      nonNullTypes == SelectSeq(node.kids, IsNonNullType)
  IN IF Len(node.kids) < 2 THEN <<>>
     ELSE IF ~hasNull THEN <<>>
     ELSE IF Len(nonNullTypes) < 1 THEN <<>>
     ELSE IF isFunctypeType(nonNullTypes[1], functypeImports) THEN <<>>
     ELSE IF isAlreadyUsingFunctype(ctx.ast, path, functypeImports) THEN <<>>
     ELSE IF startsWith(GetText(nonNullTypes[1]), "Option<") THEN <<>>
     ELSE <<Report(path, "preferOption",
                   [type |-> GetText(nonNullTypes[1]), nullable |-> GetText(node)],
                   NoFix)>>

preferOption_TSUnionType(ctx, path) ==
  LET node == NodeAt(ctx.ast, path)
      functypeImports == getFunctypeImportsLegacy(ctx.ast)
      hasNull == \E i \in 1..Len(node.kids) : IsNullishType(node.kids[i])
      nonNullTypes == SelectSeq(node.kids, IsNonNullType)
  IN IF Len(node.kids) < 2 THEN <<>>
     ELSE IF ~hasNull THEN <<>>
     ELSE IF Len(nonNullTypes) # 1 THEN <<>>
     ELSE IF isFunctypeType(nonNullTypes[1], functypeImports) THEN <<>>
     ELSE IF isAlreadyUsingFunctype(ctx.ast, path, functypeImports) THEN <<>>
     ELSE IF startsWith(GetText(nonNullTypes[1]), "Option<") THEN <<>>
     ELSE <<Report(path, "preferOption",
                   [type |-> GetText(nonNullTypes[1]), nullable |-> GetText(node)],
                   NoFix)>>


-----------------------------------------------------------------------------
(* rules/prefer-option.ts (the fixable variant)                            *)

\* the fix wrapping the whole union text instead of the non-null arm
preferOptionFixable_TSUnionType_WrapsUnion(ctx, path) ==
  LET node == NodeAt(ctx.ast, path)
      hasNull == \E i \in 1..Len(node.kids) : IsNullishType(node.kids[i])
      nonNullTypes == SelectSeq(node.kids, IsNonNullType)
      nonNullType == GetText(nonNullTypes[1])
  IN IF Len(node.kids) < 2 THEN <<>>
     ELSE IF ~hasNull THEN <<>>
     ELSE IF Len(nonNullTypes) # 1 THEN <<>>
     ELSE IF startsWith(nonNullType, "Option<") THEN <<>>
     ELSE <<Report(path, "preferOption",
                   [type |-> nonNullType, nullable |-> GetText(node)],
                   ReplaceText("Option<" \o GetText(node) \o ">"))>>

preferOptionFixable_TSUnionType(ctx, path) ==
  LET node == NodeAt(ctx.ast, path)
      hasNull == \E i \in 1..Len(node.kids) : IsNullishType(node.kids[i])
      nonNullTypes == SelectSeq(node.kids, IsNonNullType)
      nonNullType == GetText(nonNullTypes[1])
  IN IF Len(node.kids) < 2 THEN <<>>
     ELSE IF ~hasNull THEN <<>>
     ELSE IF Len(nonNullTypes) # 1 THEN <<>>
     ELSE IF startsWith(nonNullType, "Option<") THEN <<>>
     ELSE <<Report(path, "preferOption",
                   [type |-> nonNullType, nullable |-> GetText(node)],
                   ReplaceText("Option<" \o nonNullType \o ">"))>>

-----------------------------------------------------------------------------
(* The parser of the engine, for the text a fix writes: type expressions.  *)

\* the first position >= i of s that holds no word character
RECURSIVE WordEnd(_, _)
WordEnd(s, i) ==
  IF i <= Len(s) /\ IsWordChar(CharAt(s, i)) THEN WordEnd(s, i + 1) ELSE i

Parsed(node, next) == [node |-> node, next |-> next]

NamedType(name) ==
  CASE name = "null" -> Node("TSNullKeyword", name, <<>>)
    [] name = "undefined" -> Node("TSUndefinedKeyword", name, <<>>)
    [] name = "string" -> Node("TSStringKeyword", name, <<>>)
    [] name = "number" -> Node("TSNumberKeyword", name, <<>>)
    [] OTHER -> Node("TSTypeReference", name, <<>>)

RECURSIVE ParseTypeAt(_, _)
RECURSIVE ParseTypeList(_, _)
RECURSIVE ParseUnionRest(_, _)
RECURSIVE ParseArraySuffix(_, _)
ParsePrimaryType(s, i) ==
  LET e == WordEnd(s, i)
      name == SubSeq(s, i, e - 1)
  IN IF OccursAt(s, "<", e)
     THEN LET args == ParseTypeList(s, e + 1)
          IN Parsed(Node("TSTypeReference", name,
                         <<Node("TSTypeParameterInstantiation", "", args.node)>>),
                    args.next + 1)
     ELSE Parsed(NamedType(name), e)
ParseArraySuffix(s, r) ==
  IF OccursAt(s, "[]", r.next)
  THEN ParseArraySuffix(s, Parsed(Node("TSArrayType", "", <<r.node>>), r.next + 2))
  ELSE r
\* the types of a "<...>" list; next is the position of the closing ">"
ParseTypeList(s, i) ==
  LET first == ParseTypeAt(s, i)
  IN IF OccursAt(s, ", ", first.next)
     THEN LET rest == ParseTypeList(s, first.next + 2)
          IN Parsed(<<first.node>> \o rest.node, rest.next)
     ELSE Parsed(<<first.node>>, first.next)
ParseUnionRest(s, i) ==
  IF OccursAt(s, " | ", i)
  THEN LET arm == ParseArraySuffix(s, ParsePrimaryType(s, i + 3))
           rest == ParseUnionRest(s, arm.next)
       IN Parsed(<<arm.node>> \o rest.node, rest.next)
  ELSE Parsed(<<>>, i)
ParseTypeAt(s, i) ==
  LET first == ParseArraySuffix(s, ParsePrimaryType(s, i))
      rest == ParseUnionRest(s, first.next)
  IN IF rest.node = <<>> THEN first
     ELSE Parsed(Node("TSUnionType", "", <<first.node>> \o rest.node), rest.next)

ParseType(s) == ParseTypeAt(s, 1).node

TypeNodeTypes ==
  KeywordTypes \cup {"TSUnionType", "TSTypeReference", "TSArrayType"}


-----------------------------------------------------------------------------
(* The parser of the engine, for the text a fix writes: expressions.       *)

Digits == {"0", "1", "2", "3", "4", "5", "6", "7", "8", "9"}

ExpressionTypes ==
  {"Identifier", "Literal", "MemberExpression", "CallExpression",
   "ArrowFunctionExpression", "ArrayExpression", "LogicalExpression"}

\* the position after the first occurrence of sub at or after i
RECURSIVE After(_, _, _)
After(s, sub, i) ==
  IF i > Len(s) THEN i
  ELSE IF OccursAt(s, sub, i) THEN i + Len(sub) ELSE After(s, sub, i + 1)

RECURSIVE ParseExprAt(_, _)
RECURSIVE ParseExprList(_, _, _)
RECURSIVE ParsePostfix(_, _)
RECURSIVE ParseStatements(_, _)
RECURSIVE ParseParams(_, _)
RECURSIVE ParsePrimary(_, _)
RECURSIVE ParseLines(_, _)

\* the body of an arrow function: a block of statements or an expression
ParseArrowBody(s, i) ==
  IF OccursAt(s, "{}", i) THEN Parsed(Node("BlockStatement", "", <<>>), i + 2)
  ELSE IF OccursAt(s, "{ ", i)
  THEN LET stmts == ParseStatements(s, i + 2)
       IN Parsed(Node("BlockStatement", "", stmts.node), stmts.next + 2)
  ELSE ParseExprAt(s, i)

\* statements separated by "; "; next is the position of the closing " }"
ParseStatements(s, i) ==
  LET first ==
        IF OccursAt(s, "return ", i)
        THEN LET e == ParseExprAt(s, i + 7)
             IN Parsed(Node("ReturnStatement", "", <<e.node>>), e.next)
        ELSE LET e == ParseExprAt(s, i)
             IN Parsed(Node("ExpressionStatement", "", <<e.node>>), e.next)
  IN IF OccursAt(s, "; ", first.next)
     THEN LET rest == ParseStatements(s, first.next + 2)
          IN Parsed(<<first.node>> \o rest.node, rest.next)
     ELSE Parsed(<<first.node>>, first.next)

\* the identifiers of "(a, b)"; i is the position after "("; next is the
\* position after ")"
ParseParams(s, i) ==
  IF OccursAt(s, ")", i) THEN Parsed(<<>>, i + 1)
  ELSE LET e == WordEnd(s, i)
           param == Node("Identifier", SubSeq(s, i, e - 1), <<>>)
       IN IF OccursAt(s, ", ", e)
          THEN LET rest == ParseParams(s, e + 2)
               IN Parsed(<<param>> \o rest.node, rest.next)
          ELSE Parsed(<<param>>, e + 1)

\* the statements of a block with one statement per line, a declaration
\* or a return each; next is the position of the closing "\n}"
ParseLines(s, i) ==
  LET first ==
        IF OccursAt(s, "const ", i)
        THEN LET e == WordEnd(s, i + 6)
                 id == Node("Identifier", SubSeq(s, i + 6, e - 1), <<>>)
                 init == ParseExprAt(s, e + 3)
             IN Parsed(Node("VariableDeclaration", "const",
                            <<Node("VariableDeclarator", "", <<id, init.node>>)>>),
                       init.next)
        ELSE LET e == ParseExprAt(s, i + 7)
             IN Parsed(Node("ReturnStatement", "", <<e.node>>), e.next)
  IN IF OccursAt(s, "\n  ", first.next)
     THEN LET rest == ParseLines(s, first.next + 3)
          IN Parsed(<<first.node>> \o rest.node, rest.next)
     ELSE Parsed(<<first.node>>, first.next)

ParsePrimary(s, i) ==
  IF OccursAt(s, "/*", i)
  THEN \* a comment is no node: the expression starts after it
       ParsePrimary(s, SkipSpaces(s, After(s, "*/", i)))
  ELSE IF OccursAt(s, "function* () {\n  ", i)
  THEN LET stmts == ParseLines(s, i + 17)
       IN Parsed(Node("FunctionExpression", "*",
                      <<Node("BlockStatement", "\n", stmts.node)>>),
                 stmts.next + 2)
  ELSE IF OccursAt(s, "yield* ", i)
  THEN LET e == ParseExprAt(s, i + 7)
       IN Parsed(Node("YieldExpression", "*", <<e.node>>), e.next)
  ELSE IF OccursAt(s, "$", i) THEN Parsed(Node("Identifier", "$", <<>>), i + 1)
  ELSE IF OccursAt(s, "[", i)
  THEN LET elems == ParseExprList(s, i + 1, "]")
       IN Parsed(Node("ArrayExpression", "", elems.node), elems.next + 1)
  ELSE IF OccursAt(s, "\"", i)
  THEN LET close == After(s, "\"", i + 1)
       IN Parsed(Node("Literal", SubSeq(s, i, close - 1), <<>>), close)
  ELSE IF OccursAt(s, "(", i)
  THEN LET params == ParseParams(s, i + 1)
           fnBody == ParseArrowBody(s, params.next + 4)
       IN Parsed(Node("ArrowFunctionExpression", "", params.node \o <<fnBody.node>>),
                 fnBody.next)
  ELSE LET e == WordEnd(s, i)
           name == SubSeq(s, i, e - 1)
       IN IF OccursAt(s, " => ", e)
          THEN LET fnBody == ParseArrowBody(s, e + 4)
               IN Parsed(Node("ArrowFunctionExpression", "",
                              <<Node("Identifier", name, <<>>), fnBody.node>>),
                         fnBody.next)
          ELSE IF name = "null" \/ (name # "" /\ CharAt(name, 1) \in Digits)
          THEN Parsed(Node("Literal", name, <<>>), e)
          ELSE Parsed(Node("Identifier", name, <<>>), e)

\* expressions separated by ", " up to the closing bracket; next is the
\* position of the bracket
ParseExprList(s, i, close) ==
  IF OccursAt(s, close, i) THEN Parsed(<<>>, i)
  ELSE LET first == ParseExprAt(s, i)
       IN IF OccursAt(s, ", ", first.next)
          THEN LET rest == ParseExprList(s, first.next + 2, close)
               IN Parsed(<<first.node>> \o rest.node, rest.next)
          ELSE Parsed(<<first.node>>, first.next)

\* member accesses and calls that follow the expression r
ParsePostfix(s, r) ==
  LET open == SkipSpaces(s, r.next) IN
  IF OccursAt(s, ".", r.next)
  THEN LET e == WordEnd(s, r.next + 1)
           prop == Node("Identifier", SubSeq(s, r.next + 1, e - 1), <<>>)
       IN ParsePostfix(s, Parsed(Node("MemberExpression", ".", <<r.node, prop>>), e))
  ELSE IF OccursAt(s, "[", r.next)
  THEN LET prop == ParseExprAt(s, r.next + 1)
       IN ParsePostfix(s, Parsed(Node("MemberExpression", "[", <<r.node, prop.node>>),
                                 prop.next + 1))
  ELSE IF OccursAt(s, "(", open)
  THEN LET first == IF OccursAt(s, "/*", open + 1)
                    THEN After(s, "*/", open + 1) ELSE open + 1
           args == ParseExprList(s, first, ")")
           name == IF first > open + 1 THEN SubSeq(s, open + 1, first - 1)
                   ELSE SubSeq(s, r.next, open - 1)
       IN ParsePostfix(s, Parsed(Node("CallExpression", name, <<r.node>> \o args.node),
                                 args.next + 1))
  ELSE r

ParseExprAt(s, i) == ParsePostfix(s, ParsePrimary(s, i))

ParseExpr(s) == ParseExprAt(s, 1).node

-----------------------------------------------------------------------------
(* The host engine: one traversal pass hands every node to the visitor the *)
(* rule registered for its type; a fix a report carries may then be        *)
(* applied to the text, and the rule is run again on the result.           *)

NoReport == Report(<<>>, "", NoData, NoFix)

\* the traversal stands at a node of this type
Visiting(type) == todo # <<>> /\ NodeAt(ast, Head(todo)).type = type

\* the traversal moves on to the next node
Advance ==
  /\ todo' = Tail(todo)
  /\ UNCHANGED <<rule, options, filename, ast, text, pass, applied>>

\* the node types each rule registers a visitor for
Handled(r) ==
  CASE r \in {"prefer-option", "prefer-option-fixable"} -> {"TSUnionType"}
    [] r = "prefer-either" -> {"TryStatement", "ThrowStatement", "FunctionDeclaration"}
    [] r = "prefer-fold" -> {"IfStatement", "ConditionalExpression"}
    [] r \in {"no-get-unsafe", "prefer-flatmap"} -> {"CallExpression"}
    [] r = "prefer-do-notation" -> {"CallExpression", "LogicalExpression"}
    [] r = "prefer-list" -> {"TSArrayType", "TSTypeReference", "ArrayExpression"}
    [] r = "prefer-map" ->
         {"ForStatement", "ForInStatement", "ForOfStatement", "CallExpression"}
    [] r = "no-imperative-loops" ->
         {"ForStatement", "ForInStatement", "ForOfStatement", "WhileStatement",
          "DoWhileStatement"}
    [] OTHER -> {}

\* a node no visitor of the rule is registered for
SkipNode ==
  /\ todo # <<>>
  /\ NodeAt(ast, Head(todo)).type \notin Handled(rule)
  /\ todo' = Tail(todo)
  /\ UNCHANGED <<rule, options, filename, ast, text, reports, pass, applied>>

\* the text a fix writes is parsed as what it replaces
ParseFragment(old, s) ==
  IF old.type \in TypeNodeTypes THEN ParseType(s)
  ELSE IF old.type \in ExpressionTypes THEN ParseExpr(s)
  ELSE old

\* the engine applies the fix of one report of the finished first pass and
\* lints the rewritten text again
ApplyFix ==
  \E i \in 1..Len(reports) :
    LET r == reports[i]
        old == NodeAt(ast, r.node)
    IN /\ todo = <<>>
       /\ pass = 1
       /\ r.fix.kind = "replaceText"
       /\ text' = ReplaceRange(text, RangeStart(ast, r.node), Len(GetText(old)),
                               r.fix.text)
       /\ ast' = ReplaceAt(ast, r.node, ParseFragment(old, r.fix.text))
       /\ todo' = PreOrder(ast')
       /\ reports' = <<>>
       /\ pass' = 2
       /\ applied' = r
       /\ UNCHANGED <<rule, options, filename>>

InitRun(r, programs, optionSet, files) ==
  /\ rule = r
  /\ options \in optionSet
  /\ filename \in files
  /\ ast \in programs
  /\ text = GetText(ast)
  /\ todo = PreOrder(ast)
  /\ reports = <<>>
  /\ pass = 1
  /\ applied = NoReport

-----------------------------------------------------------------------------
(* Input files.                                                            *)

Id(name) == Node("Identifier", name, <<>>)
TypedId(name, t) == Node("Identifier", name, <<Node("TSTypeAnnotation", "", <<t>>)>>)
Member(obj, prop) == Node("MemberExpression", ".", <<obj, Id(prop)>>)
Call(fn, args) == Node("CallExpression", "", <<fn>> \o args)
Arrow(params, body) == Node("ArrowFunctionExpression", "", params \o <<body>>)
ExprStmt(e) == Node("ExpressionStatement", "", <<e>>)
Const(id, init) ==
  Node("VariableDeclaration", "const", <<Node("VariableDeclarator", "", <<id, init>>)>>)
Block(stmts) == Node("BlockStatement", "", stmts)

RECURSIVE Specifiers(_)
Specifiers(names) ==
  IF names = <<>> THEN <<>>
  ELSE <<Node("ImportSpecifier", Head(names), <<>>)>> \o Specifiers(Tail(names))

\* a file: an optional named import from 'functype', then the statements
Program(imported, stmts) ==
  Node("Program", "",
       (IF imported = <<>> THEN <<>>
        ELSE <<Node("ImportDeclaration", "functype", Specifiers(imported))>>)
       \o stmts)

TString == Node("TSStringKeyword", "string", <<>>)
TNull == Node("TSNullKeyword", "null", <<>>)
TUndefined == Node("TSUndefinedKeyword", "undefined", <<>>)
TRef(name) == Node("TSTypeReference", name, <<>>)
TRefOf(name, args) ==
  Node("TSTypeReference", name, <<Node("TSTypeParameterInstantiation", "", args)>>)
TArray(t) == Node("TSArrayType", "", <<t>>)
TUnion(arms) == Node("TSUnionType", "", arms)

\* the longest union type of the input files
MaxArms == 3

UnionArms ==
  {TString, TNull, TUndefined, TRef("Tuple"), TRefOf("Option", <<TString>>),
   TArray(TRefOf("Option", <<TString>>))}

Unions(k) == {TUnion(arms) : arms \in [1..k -> UnionArms]}

OptionPrograms ==
  LET all == UNION {Unions(k) : k \in 2..MaxArms}
      declared == {<<Const(TypedId("v", t), Node("Literal", "null", <<>>))>> : t \in all}
      nested ==
        {<<Const(TypedId("v", TRefOf(w, <<t>>)), Node("Literal", "null", <<>>))>> :
           w \in {"Option", "Array"}, t \in Unions(2)}
      inCall ==
        {<<ExprStmt(Call(Member(Id(c[1]), c[2]), <<Arrow(<<TypedId("x", t)>>, Id("x"))>>))>> :
           c \in {<<"xs", "map">>, <<"xs", "each">>, <<"Tuple", "of">>}, t \in Unions(2)}
  IN {Program(imported, stmts) :
        imported \in {<<>>, <<"Tuple">>}, stmts \in declared \cup nested \cup inCall}

NoOptions == [none |-> TRUE]

InitOption == InitRun("prefer-option", OptionPrograms, {NoOptions}, {"src/a.ts"})

Visit_preferOption_TSUnionType ==
  /\ rule = "prefer-option"
  /\ Visiting("TSUnionType")
  /\ reports' = reports \o preferOption_TSUnionType(Context, Head(todo))
  /\ Advance

NextOption == Visit_preferOption_TSUnionType \/ SkipNode

\* prefer-option, the variant with functype detection
SpecOption == InitOption /\ [][NextOption]_vars

InitOptionFixable ==
  InitRun("prefer-option-fixable", OptionPrograms, {NoOptions}, {"src/a.ts"})

Visit_preferOptionFixable_TSUnionType ==
  /\ rule = "prefer-option-fixable"
  /\ Visiting("TSUnionType")
  /\ reports' = reports \o preferOptionFixable_TSUnionType(Context, Head(todo))
  /\ Advance

NextOptionFixable == Visit_preferOptionFixable_TSUnionType \/ SkipNode \/ ApplyFix

\* prefer-option, the fixable variant, with the engine's fix pass
SpecOptionFixable == InitOptionFixable /\ [][NextOptionFixable]_vars

\* the text of the file is the text of its tree, also after a fix
TextMatchesTree == text = GetText(ast)


-----------------------------------------------------------------------------
(* The test-file exemption (the same function in prefer-either,            *)
(* prefer-list, no-get-unsafe and no-imperative-loops).                    *)

\* /\.(test|spec)\.(ts|js|tsx|jsx)$/.test(filename)
MatchesTestSuffix(name) ==
  \E a \in {"test", "spec"}, b \in {"ts", "js", "tsx", "jsx"} :
     endsWith(name, "." \o a \o "." \o b)

\* a test-file check that does not know the /tests/ directory
isInTestFile_NoTestsDirectory(name) ==
  \/ MatchesTestSuffix(name)
  \/ includes(name, "__tests__")
  \/ includes(name, "/test/")

isInTestFile(name) ==
  \/ MatchesTestSuffix(name)
  \/ includes(name, "__tests__")
  \/ includes(name, "/test/")
  \/ includes(name, "/tests/")

\* options.<key> !== false
NotFalse(opts, key) == IF key \in DOMAIN opts THEN opts[key] # FALSE ELSE TRUE

\* options.<key> || false
Truthy(opts, key) == IF key \in DOMAIN opts THEN opts[key] = TRUE ELSE FALSE

-----------------------------------------------------------------------------
(* rules/prefer-either (the variant that exempts re-throwing handlers)     *)

\* node.handler of a TryStatement: the path of its CatchClause, if it has one
HasHandler(n) == n.type = "TryStatement" /\ n.name # "finally"
handler(n) == n.kids[2]

\* node.returnType?.typeAnnotation of a FunctionDeclaration
HasReturnType(n) == Len(n.kids) = 3
returnType(n) == n.kids[2].kids[1]
\* node.body of a FunctionDeclaration
body(n) == n.kids[Len(n.kids)]

RECURSIVE hasThrowStatementsOutsideCatch(_, _)
hasThrowStatementsOutsideCatch(root, path) ==
  LET node == NodeAt(root, path)
  IN IF node.type = "ThrowStatement"
     THEN ~\E a \in AncestorPaths(path) : NodeAt(root, a).type = "CatchClause"
     ELSE IF node.type = "CatchClause" THEN FALSE
     ELSE \E i \in 1..Len(node.kids) :
            hasThrowStatementsOutsideCatch(root, path \o <<i>>)

\* an earlier form of the visitor: every try statement is reported
preferEither_TryStatement_Always(ctx, path) ==
  LET allowThrowInTests == NotFalse(ctx.options, "allowThrowInTests")
  IN IF allowThrowInTests /\ isInTestFile(ctx.filename) THEN <<>>
     ELSE <<Report(path, "preferEitherOverTryCatch", NoData, NoFix)>>

preferEither_TryStatement(ctx, path) ==
  LET node == NodeAt(ctx.ast, path)
      allowThrowInTests == NotFalse(ctx.options, "allowThrowInTests")
      catchBody == handler(node).kids[1].kids
      hasRethrow == \E i \in 1..Len(catchBody) : catchBody[i].type = "ThrowStatement"
  IN IF allowThrowInTests /\ isInTestFile(ctx.filename) THEN <<>>
     ELSE IF HasHandler(node) /\ hasRethrow THEN <<>>
     ELSE <<Report(path, "preferEitherOverTryCatch", NoData, NoFix)>>

preferEither_ThrowStatement(ctx, path) ==
  LET allowThrowInTests == NotFalse(ctx.options, "allowThrowInTests")
  IN IF allowThrowInTests /\ isInTestFile(ctx.filename) THEN <<>>
     ELSE IF \E a \in AncestorPaths(path) : NodeAt(ctx.ast, a).type = "CatchClause"
     THEN <<>>
     ELSE <<Report(path, "preferEitherOverThrow", NoData, NoFix)>>

\* the function-declaration visitor without the check for Either
preferEither_FunctionDeclaration_IgnoresEither(ctx, path) ==
  LET node == NodeAt(ctx.ast, path)
      allowThrowInTests == NotFalse(ctx.options, "allowThrowInTests")
      hasThrowsNotInCatch ==
        hasThrowStatementsOutsideCatch(ctx.ast, path \o <<Len(node.kids)>>)
  IN IF allowThrowInTests /\ isInTestFile(ctx.filename) THEN <<>>
     ELSE IF ~hasThrowsNotInCatch THEN <<>>
     ELSE IF ~HasReturnType(node) THEN <<>>
     ELSE <<Report(path \o <<1>>, "preferEitherReturn",
                   [type |-> GetText(returnType(node))], NoFix)>>

preferEither_FunctionDeclaration(ctx, path) ==
  LET node == NodeAt(ctx.ast, path)
      allowThrowInTests == NotFalse(ctx.options, "allowThrowInTests")
      hasThrowsNotInCatch ==
        hasThrowStatementsOutsideCatch(ctx.ast, path \o <<Len(node.kids)>>)
  IN IF allowThrowInTests /\ isInTestFile(ctx.filename) THEN <<>>
     ELSE IF ~hasThrowsNotInCatch THEN <<>>
     ELSE IF ~HasReturnType(node) THEN <<>>
     ELSE IF includes(GetText(returnType(node)), "Either") THEN <<>>
     ELSE <<Report(path \o <<1>>, "preferEitherReturn",
                   [type |-> GetText(returnType(node))], NoFix)>>

Visit_preferEither_TryStatement ==
  /\ rule = "prefer-either"
  /\ Visiting("TryStatement")
  /\ reports' = reports \o preferEither_TryStatement(Context, Head(todo))
  /\ Advance

Visit_preferEither_ThrowStatement ==
  /\ rule = "prefer-either"
  /\ Visiting("ThrowStatement")
  /\ reports' = reports \o preferEither_ThrowStatement(Context, Head(todo))
  /\ Advance

Visit_preferEither_FunctionDeclaration ==
  /\ rule = "prefer-either"
  /\ Visiting("FunctionDeclaration")
  /\ reports' = reports \o preferEither_FunctionDeclaration(Context, Head(todo))
  /\ Advance

\* the longest catch body of the input files
MaxCatchStmts == 2

Log == ExprStmt(Call(Member(Id("console"), "log"), <<Id("error")>>))
Throw == Node("ThrowStatement", "", <<Id("error")>>)
Risky == ExprStmt(Call(Id("risky"), <<>>))
If(test, then) == Node("IfStatement", "", <<test, then>>)
IfElse(test, then, else) == Node("IfStatement", "", <<test, then, else>>)
Try(block, param, catchBody) ==
  Node("TryStatement", "catch",
       <<Block(block), Node("CatchClause", param, <<Block(catchBody)>>)>>)
TryFinally(block, finalizer) ==
  Node("TryStatement", "finally", <<Block(block), Block(finalizer)>>)
Function(name, stmts) ==
  Node("FunctionDeclaration", "", <<Id(name), Block(stmts)>>)
FunctionOf(name, type, stmts) ==
  Node("FunctionDeclaration", "",
       <<Id(name), Node("TSTypeAnnotation", "", <<type>>), Block(stmts)>>)

CatchBodies ==
  UNION {[1..k -> {Log, Throw, If(Id("fatal"), Block(<<Throw>>))}] :
           k \in 0..MaxCatchStmts}

EitherStatements ==
  {Try(<<Risky>>, "error", b) : b \in CatchBodies}
    \cup {TryFinally(<<Risky>>, <<Log>>),
          Try(<<Throw>>, "error", <<Log>>),
          Try(<<Risky>>, "error", <<FunctionOf("g", TString, <<Throw>>)>>),
          Throw, Log}

EitherPrograms ==
  {Program(<<>>, <<s>>) : s \in EitherStatements}
    \cup {Program(<<>>, <<Function("f", <<s>>)>>) : s \in EitherStatements}
    \cup {Program(<<>>, <<FunctionOf("f", t, <<s>>)>>) :
            t \in {TString, TRefOf("Either", <<TRef("Error"), TString>>)},
            s \in EitherStatements}

EitherOptions == {NoOptions, [allowThrowInTests |-> FALSE]}

InitEither ==
  InitRun("prefer-either", EitherPrograms, EitherOptions,
          {"src/parse.ts", "src/parse.test.ts"})

NextEither ==
  \/ Visit_preferEither_TryStatement
  \/ Visit_preferEither_ThrowStatement
  \/ Visit_preferEither_FunctionDeclaration
  \/ SkipNode

SpecEither == InitEither /\ [][NextEither]_vars


-----------------------------------------------------------------------------
(* rules/prefer-fold                                                       *)

\* /\.(m1|m2|...)\s*\(\s*\)/.test(s) for the method names ms
HasEmptyCallOf(s, ms) ==
  \E i \in 1..Len(s), mth \in ms :
     /\ OccursAt(s, "." \o mth, i)
     /\ LET open == SkipSpaces(s, i + Len(mth) + 1)
        IN /\ OccursAt(s, "(", open)
           /\ OccursAt(s, ")", SkipSpaces(s, open + 1))

\* options.minComplexity || 2
DefaultMinComplexity == 2
minComplexity(opts) ==
  IF "minComplexity" \in DOMAIN opts /\ opts.minComplexity # 0
  THEN opts.minComplexity ELSE DefaultMinComplexity

test(n) == n.kids[1]
consequent(n) == n.kids[2]
HasAlternate(n) == Len(n.kids) = 3
alternate(n) == n.kids[3]

\* String.prototype.trim
RECURSIVE trimStart(_)
trimStart(s) == IF s # "" /\ IsSpace(CharAt(s, 1)) THEN trimStart(Tail(s)) ELSE s
RECURSIVE trimEnd(_)
trimEnd(s) ==
  IF s # "" /\ IsSpace(CharAt(s, Len(s))) THEN trimEnd(SubSeq(s, 1, Len(s) - 1)) ELSE s
trim(s) == trimEnd(trimStart(s))

\* getText(null) is the text of the whole file
extractBodyForFold(ctx, node) ==
  IF node.type = "BlockStatement"
  THEN IF Len(node.kids) = 1 /\ node.kids[1].type = "ReturnStatement"
       THEN IF node.kids[1].kids = <<>> THEN GetText(ctx.ast)
            ELSE GetText(node.kids[1].kids[1])
       ELSE trim(SubSeq(GetText(node), 2, Len(GetText(node)) - 1))
  ELSE GetText(node)

PositiveChecks == {"isSome", "isRight", "isSuccess"}
NegatedChecks == {"isNone", "isEmpty", "isLeft", "isFailure"}

IsMethodCall(n) == n.type = "CallExpression" /\ callee(n).type = "MemberExpression"

\* a fold expression that puts the then branch first for every predicate
FoldText_ThenFirst(t, thenBody, elseBody) ==
  LET monadicObj == GetText(object(callee(t)))
  IN monadicObj \o ".fold(() => " \o thenBody \o ", () => " \o elseBody \o ")"

\* the fold expression for test node t and the two branch texts
FoldText(t, thenBody, elseBody) ==
  LET monadicObj == GetText(object(callee(t)))
      isNegated == NameOf(property(callee(t))) \in NegatedChecks
  IN IF isNegated
     THEN monadicObj \o ".fold(() => " \o thenBody \o ", () => " \o elseBody \o ")"
     ELSE monadicObj \o ".fold(() => " \o elseBody \o ", (value) => " \o thenBody \o ")"

SingleReturnBlock(b) == Len(b.kids) = 1 /\ b.kids[1].type = "ReturnStatement"

\* the text of the rewrite, or Undefined for null
generateFoldFromIf(ctx, node) ==
  IF node.type # "IfStatement" THEN Undefined
  ELSE IF ~HasAlternate(node) THEN Undefined
  ELSE IF ~IsMethodCall(test(node)) THEN Undefined
  ELSE IF GetText(object(callee(test(node)))) = "" THEN Undefined
  ELSE IF consequent(node).type = "BlockStatement" /\ ~SingleReturnBlock(consequent(node))
  THEN Undefined
  ELSE IF alternate(node).type = "BlockStatement" /\ ~SingleReturnBlock(alternate(node))
  THEN Undefined
  ELSE IF alternate(node).type = "IfStatement" THEN Undefined
  ELSE FoldText(test(node), extractBodyForFold(ctx, consequent(node)),
                extractBodyForFold(ctx, alternate(node)))

generateFoldFromTernary(ctx, node) ==
  IF node.type # "ConditionalExpression" THEN Undefined
  ELSE IF ~IsMethodCall(test(node)) THEN Undefined
  ELSE IF GetText(object(callee(test(node)))) = "" THEN Undefined
  ELSE FoldText(test(node), GetText(consequent(node)), GetText(alternate(node)))

\* a gate that lets every method call through
shouldAutoFix_AnyMethodCall(node) == IsMethodCall(node)

shouldAutoFix(node) ==
  /\ IsMethodCall(node)
  /\ NameOf(property(callee(node))) \in PositiveChecks \cup NegatedChecks

IsNullLiteral(n) == n.type = "Literal" /\ n.name = "null"
IsUndefinedName(n) == n.type = "Identifier" /\ n.name = "undefined"

isMonadicCheck(node) ==
  LET txt == GetText(node) IN
  IF HasEmptyCallOf(txt, {"isSome", "isNone", "isEmpty", "isDefined"})
  THEN [isMonadic |-> TRUE, type |-> "Option"]
  ELSE IF HasEmptyCallOf(txt, {"isLeft", "isRight"})
  THEN [isMonadic |-> TRUE, type |-> "Either"]
  ELSE IF HasEmptyCallOf(txt, {"isSuccess", "isFailure"})
  THEN [isMonadic |-> TRUE, type |-> "Result"]
  ELSE IF /\ node.type = "BinaryExpression"
          /\ \/ /\ node.name \in {"===", "!=="}
                /\ (IsNullLiteral(node.kids[1]) \/ IsNullLiteral(node.kids[2]))
             \/ /\ node.name \in {"==", "!=", "===", "!=="}
                /\ (IsUndefinedName(node.kids[1]) \/ IsUndefinedName(node.kids[2]))
  THEN [isMonadic |-> TRUE, type |-> "Option"]
  ELSE [isMonadic |-> FALSE, type |-> ""]

\* the fix callback of both visitors
FoldFix(node, replacement) ==
  IF ~shouldAutoFix(test(node)) THEN NullFix
  ELSE IF replacement # Undefined THEN ReplaceText(replacement)
  ELSE NullFix

\* complexity of the chain that starts at node: 1, and 1 more for every
\* alternate on the way down the else-if links
RECURSIVE ChainComplexity(_)
ChainComplexity(node) ==
  IF ~HasAlternate(node) THEN 1
  ELSE IF alternate(node).type = "IfStatement" THEN 1 + ChainComplexity(alternate(node))
  ELSE 2

\* an analysis that does not look at the parent of the if statement
analyzeIfStatement_EveryIf(ctx, path) ==
  LET node == NodeAt(ctx.ast, path)
      monadicInfo == isMonadicCheck(test(node))
  IN IF ~monadicInfo.isMonadic THEN <<>>
     ELSE IF ChainComplexity(node) >= minComplexity(ctx.options)
     THEN <<Report(path, "preferFold", [type |-> monadicInfo.type],
                   FoldFix(node, generateFoldFromIf(ctx, node)))>>
     ELSE <<>>

analyzeIfStatement(ctx, path) ==
  LET node == NodeAt(ctx.ast, path)
      monadicInfo == isMonadicCheck(test(node))
  IN IF ~monadicInfo.isMonadic THEN <<>>
     ELSE IF path # <<>> /\ NodeAt(ctx.ast, ParentPath(path)).type = "IfStatement" THEN <<>>
     ELSE IF ChainComplexity(node) >= minComplexity(ctx.options)
     THEN <<Report(path, "preferFold", [type |-> monadicInfo.type],
                   FoldFix(node, generateFoldFromIf(ctx, node)))>>
     ELSE <<>>

preferFold_ConditionalExpression(ctx, path) ==
  LET node == NodeAt(ctx.ast, path)
      monadicInfo == isMonadicCheck(test(node))
  IN IF monadicInfo.isMonadic
     THEN <<Report(path, "preferFoldTernary", [type |-> monadicInfo.type],
                   FoldFix(node, generateFoldFromTernary(ctx, node)))>>
     ELSE <<>>

Visit_preferFold_IfStatement ==
  /\ rule = "prefer-fold"
  /\ Visiting("IfStatement")
  /\ reports' = reports \o analyzeIfStatement(Context, Head(todo))
  /\ Advance

Visit_preferFold_ConditionalExpression ==
  /\ rule = "prefer-fold"
  /\ Visiting("ConditionalExpression")
  /\ reports' = reports \o preferFold_ConditionalExpression(Context, Head(todo))
  /\ Advance

\* the longest if / else-if chain of the input files (number of ifs)
MaxLinks == 2

NullLit == Node("Literal", "null", <<>>)
Num(n) == Node("Literal", n, <<>>)
Binary(l, op, r) == Node("BinaryExpression", op, <<l, r>>)
Return(e) == Node("ReturnStatement", "", <<e>>)
Ternary(t, a, b) == Node("ConditionalExpression", "", <<t, a, b>>)
IsCheck(obj, mth) == Call(Member(Id(obj), mth), <<>>)

HeadTests ==
  {IsCheck("opt", "isSome"), IsCheck("either", "isLeft"), IsCheck("res", "isSuccess"),
   Binary(Id("x"), "===", NullLit), Binary(Id("x"), "!=", Id("undefined")),
   Id("ready")}
LinkTests == {IsCheck("opt", "isNone"), Id("ready")}
\* monadic by their text, and no direct call of one of the seven checks
OtherTests ==
  {IsCheck("opt", "isDefined"),
   Node("LogicalExpression", "&&", <<IsCheck("opt", "isSome"), Id("ready")>>),
   Binary(NullLit, "!==", Id("x"))}

\* the if / else-if chains of k ifs, with and without a final else
RECURSIVE LinkChains(_)
LinkChains(k) ==
  IF k = 0 THEN {<<>>}
  ELSE LET rest == LinkChains(k - 1)
       IN { <<t>> \o c : t \in LinkTests, c \in rest }
RECURSIVE ChainOf(_, _, _)
ChainOf(tests, i, withElse) ==
  IF i = Len(tests)
  THEN IF withElse
       THEN IfElse(tests[i], Block(<<Return(Num("1"))>>), Block(<<Return(Num("0"))>>))
       ELSE If(tests[i], Block(<<Return(Num("1"))>>))
  ELSE IfElse(tests[i], Block(<<Return(Num("1"))>>), ChainOf(tests, i + 1, withElse))
Chains(heads, k) ==
  { ChainOf(<<h>> \o c, 1, e) : h \in heads, c \in LinkChains(k - 1), e \in BOOLEAN }

\* comparisons with null by == and !=, and comparisons with other operands
Comparisons ==
  {Binary(Id("x"), "==", NullLit), Binary(NullLit, "!=", Id("x")),
   Binary(Id("undefined"), "!==", Id("x")), Binary(Id("x"), "===", Num("0")),
   Binary(Id("x"), "<", Id("undefined"))}

\* the shapes of the two branches of an if / else
LogCall == ExprStmt(Call(Id("log"), <<Id("x")>>))
BranchTests == {IsCheck("opt", "isSome"), IsCheck("opt", "isNone"),
                Binary(Id("x"), "===", NullLit)}
ThenBranches ==
  {Block(<<Return(Num("1"))>>), Block(<<LogCall, Return(Num("1"))>>), Block(<<LogCall>>)}
ElseBranches ==
  {Block(<<Return(Num("0"))>>), Block(<<LogCall, Return(Num("0"))>>), Block(<<LogCall>>),
   Block(<<>>), Block(<<Node("ReturnStatement", "", <<>>)>>),
   Return(Num("0")), LogCall}

FoldStatements ==
  LET chains == UNION {Chains(HeadTests, k) : k \in 1..MaxLinks}
      inner == Chains({IsCheck("opt", "isSome"), Id("ready")}, 1)
  IN chains
       \cup {If(t, c) : t \in {Id("ready"), IsCheck("opt", "isNone")}, c \in inner}
       \cup {If(t, Block(<<c>>)) : t \in {Id("ready"), IsCheck("opt", "isNone")}, c \in inner}
       \cup {Const(Id("r"), Ternary(t, Num("1"), Num("0"))) : t \in HeadTests}
       \cup {Const(Id("r"), Ternary(t, Num("1"), Num("0"))) : t \in OtherTests}
       \cup Chains(OtherTests, 1)
       \cup {IfElse(t, c, a) : t \in BranchTests, c \in ThenBranches, a \in ElseBranches}
       \cup {Const(Id("r"), Ternary(t, Num("1"), Num("0"))) : t \in Comparisons}
       \cup Chains(Comparisons, 1)

FoldPrograms == {Program(<<>>, <<s>>) : s \in FoldStatements}

FoldOptions == {NoOptions} \cup {[minComplexity |-> k] : k \in 1..3}

InitFold == InitRun("prefer-fold", FoldPrograms, FoldOptions, {"src/fold.ts"})

NextFold ==
  \/ Visit_preferFold_IfStatement
  \/ Visit_preferFold_ConditionalExpression
  \/ SkipNode

SpecFold == InitFold /\ [][NextFold]_vars


-----------------------------------------------------------------------------
(* rules/no-get-unsafe                                                     *)

DefaultUnsafeMethods == {"get", "getOrThrow", "unwrap", "expect"}

\* options.unsafeMethods || [...]
unsafeMethods(opts) ==
  IF "unsafeMethods" \in DOMAIN opts THEN opts.unsafeMethods ELSE DefaultUnsafeMethods

\* /\b(w1|w2|...)\b/.test(s)
HasWholeWord(s, ws) ==
  \E i \in 1..Len(s), w \in ws :
     OccursAt(s, w, i) /\ WordBoundary(s, i) /\ WordBoundary(s, i + Len(w))

\* /\.(m1|m2|...)\s*\(/.test(s)
HasCallOf(s, ms) ==
  \E i \in 1..Len(s), mth \in ms :
     /\ OccursAt(s, "." \o mth, i)
     /\ OccursAt(s, "(", SkipSpaces(s, i + Len(mth) + 1))

\* /\b(w1|w2|...)\w*\b/i.test(s), the ws in lower case
HasWordPrefix(s, ws) ==
  LET low == toLowerCase(s)
  IN \E i \in 1..Len(s), w \in ws : OccursAt(low, w, i) /\ WordBoundary(s, i)

MonadNames == {"Option", "Either", "Maybe", "Result", "Some", "None", "Left", "Right"}
MonadWords == {"option", "either", "maybe", "result", "some", "none", "left", "right"}

RECURSIVE isMonadicType(_)
isMonadicType(node) ==
  LET txt == GetText(node) IN
  IF HasWholeWord(txt, MonadNames) THEN TRUE
  ELSE IF HasCallOf(txt, {"map", "flatMap", "filter", "fold"}) THEN TRUE
  ELSE IF HasWordPrefix(txt, MonadWords) THEN TRUE
  ELSE IF /\ node.type = "Identifier"
          /\ \E w \in MonadWords \cup {"opt"} : includes(toLowerCase(node.name), w)
  THEN TRUE
  ELSE IF node.type = "CallExpression" /\ callee(node).type = "MemberExpression"
  THEN isMonadicType(object(callee(node)))
  ELSE FALSE

\* a fix that keeps the message of expect as the default value
getOrElseReplacement_KeepsExpect(methodName, objectText) ==
  IF methodName = "expect" THEN objectText \o ".getOrElse(msg)"
  ELSE objectText \o ".getOrElse(/* TODO: provide default value */)"

\* a fix that leaves the unsafe call in place
getOrElseReplacement_StillGet(methodName, objectText) ==
  objectText \o ".get(/* TODO: provide default value */)"

\* the replacement the fix callback chooses by method name
getOrElseReplacement(methodName, objectText) ==
  IF methodName = "get"
  THEN objectText \o ".getOrElse(/* TODO: provide default value */)"
  ELSE IF methodName = "getOrThrow"
  THEN objectText \o ".getOrElse(/* TODO: provide default value */)"
  ELSE IF methodName = "unwrap"
  THEN objectText \o ".getOrElse(/* TODO: provide default value */)"
  ELSE IF methodName = "expect"
  THEN objectText \o ".getOrElse(/* TODO: provide default value */)"
  ELSE objectText \o ".getOrElse(/* TODO: provide default value */)"

\* a classifier that reads the names of plain identifiers only
noGetUnsafe_CallExpression_NamesOnly(ctx, path) ==
  LET node == NodeAt(ctx.ast, path)
      allowInTests == NotFalse(ctx.options, "allowInTests")
      methodName == property(callee(node)).name
      receiver == object(callee(node))
  IN IF allowInTests /\ isInTestFile(ctx.filename) THEN <<>>
     ELSE IF callee(node).type # "MemberExpression" THEN <<>>
     ELSE IF property(callee(node)).type # "Identifier" THEN <<>>
     ELSE IF methodName \notin unsafeMethods(ctx.options) THEN <<>>
     ELSE IF /\ receiver.type = "Identifier"
             /\ \E w \in MonadWords \cup {"opt"} : includes(toLowerCase(receiver.name), w)
     THEN <<Report(path, "noUnsafeGet", [method |-> methodName],
                   ReplaceText(getOrElseReplacement(methodName, GetText(receiver))))>>
     ELSE <<>>

noGetUnsafe_CallExpression(ctx, path) ==
  LET node == NodeAt(ctx.ast, path)
      allowInTests == NotFalse(ctx.options, "allowInTests")
      methodName == property(callee(node)).name
  IN IF allowInTests /\ isInTestFile(ctx.filename) THEN <<>>
     ELSE IF callee(node).type # "MemberExpression" THEN <<>>
     ELSE IF property(callee(node)).type # "Identifier" THEN <<>>
     ELSE IF methodName \notin unsafeMethods(ctx.options) THEN <<>>
     ELSE IF isMonadicType(object(callee(node)))
     THEN <<Report(path, "noUnsafeGet", [method |-> methodName],
                   ReplaceText(getOrElseReplacement(methodName,
                                                    GetText(object(callee(node))))))>>
     ELSE <<>>

Visit_noGetUnsafe_CallExpression ==
  /\ rule = "no-get-unsafe"
  /\ Visiting("CallExpression")
  /\ reports' = reports \o noGetUnsafe_CallExpression(Context, Head(todo))
  /\ Advance

\* the longest argument list of the calls of the input files
MaxArgs == 1

Str(s) == Node("Literal", "\"" \o s \o "\"", <<>>)
Computed(obj, prop) == Node("MemberExpression", "[", <<obj, prop>>)

Receivers ==
  {Id("option"), Id("someOption"), Id("myResult"), Id("adopt"), Id("leftover"),
   Id("map"), Id("obj"), Id("cache"),
   Call(Id("Some"), <<Str("v")>>),
   Call(Id("getValue"), <<>>),
   Call(Member(Id("items"), "map"), <<Id("f")>>),
   Call(Member(Id("cache"), "lookup"), <<Id("k")>>),
   Call(Member(Id("cache"), "lookup"), <<Id("option")>>),
   Call(Member(Id("adopt"), "find"), <<Id("k")>>),
   Call(Member(Id("option"), "get"), <<>>),
   Member(Id("user"), "maybeName"),
   Member(Id("user"), "myOption"),
   Member(Id("store"), "adopt")}

CalledMethods ==
  {"get", "getOrThrow", "unwrap", "expect", "fetch", "getData", "getOrElse", "map", "fold"}

ArgLists == UNION {[1..k -> {Str("key"), Id("msg")}] : k \in 0..MaxArgs}

GetStatements ==
  {ExprStmt(Call(Member(r, mth), args)) :
     r \in Receivers, mth \in CalledMethods, args \in ArgLists}
    \cup {ExprStmt(Call(Computed(Id("option"), p), <<>>)) : p \in {Id("get"), Str("get")}}
    \cup {ExprStmt(Call(Id("get"), <<Str("key")>>))}

GetPrograms == {Program(<<>>, <<s>>) : s \in GetStatements}

GetOptions ==
  {NoOptions, [allowInTests |-> FALSE], [unsafeMethods |-> {"get", "fetch"}]}

InitGet ==
  InitRun("no-get-unsafe", GetPrograms, GetOptions, {"src/a.ts", "src/a.spec.ts"})

NextGet ==
  \/ Visit_noGetUnsafe_CallExpression
  \/ SkipNode
  \/ ApplyFix

SpecGet == InitGet /\ [][NextGet]_vars


-----------------------------------------------------------------------------
(* rules/prefer-do-notation                                                *)

\* options.minChainDepth || 3
DefaultMinChainDepth == 3
minChainDepth(opts) ==
  IF "minChainDepth" \in DOMAIN opts /\ opts.minChainDepth # 0
  THEN opts.minChainDepth ELSE DefaultMinChainDepth

\* utils/functype-detection.ts: a call of an imported Do or DoAsync
isDoNotationCall(node, functypeImports) ==
  /\ node.type = "CallExpression"
  /\ callee(node).type = "Identifier"
  /\ callee(node).name \in functypeImports.functions
  /\ callee(node).name \in {"Do", "DoAsync"}

isInsideDoNotation(root, path, functypeImports) ==
  \E a \in AncestorPaths(path) : isDoNotationCall(NodeAt(root, a), functypeImports)

hasDoImport(program) ==
  {"Do", "DoAsync"} \cap getFunctypeImports(program).functions # {}

\* the position after ".word" at i, 0 if there is none
DotWordEnd(s, i) ==
  IF OccursAt(s, ".", i) /\ WordEnd(s, i + 1) > i + 1 THEN WordEnd(s, i + 1) ELSE 0

\* the position after the longest (\.\w+)* at i
RECURSIVE DotWordsEnd(_, _)
DotWordsEnd(s, i) == IF DotWordEnd(s, i) = 0 THEN i ELSE DotWordsEnd(s, DotWordEnd(s, i))

\* /\w+(\.\w+){2,}/ matches in the text of the node
hasNestedPropertyAccess(node) ==
  LET txt == GetText(node)
  IN \E i \in 1..Len(txt) :
        /\ IsWordChar(CharAt(txt, i))
        /\ DotWordEnd(txt, WordEnd(txt, i)) # 0
        /\ DotWordEnd(txt, DotWordEnd(txt, WordEnd(txt, i))) # 0

\* the number of links of the && chain, walking left, whose right operand
\* is a member expression or an && expression
RECURSIVE GuardDepth(_)
GuardDepth(current) ==
  IF current.type = "LogicalExpression" /\ current.name = "&&"
  THEN (IF \/ current.kids[2].type = "MemberExpression"
           \/ (current.kids[2].type = "LogicalExpression" /\ current.kids[2].name = "&&")
        THEN 1 ELSE 0) + GuardDepth(current.kids[1])
  ELSE 0

\* text.match(/(\w+)(\.\w+)+/): the start of the leftmost match, 0 if none
FirstDottedWord(txt) ==
  LET hits == {i \in 1..Len(txt) :
                 IsWordChar(CharAt(txt, i)) /\ DotWordEnd(txt, WordEnd(txt, i)) # 0}
  IN IF hits = {} THEN 0 ELSE CHOOSE i \in hits : \A j \in hits : i <= j

fixNestedChecks(node) ==
  LET txt == GetText(node)
      at == FirstDottedWord(txt)
      baseVar == SubSeq(txt, at, WordEnd(txt, at) - 1)
      rest == SubSeq(txt, WordEnd(txt, at), DotWordsEnd(txt, WordEnd(txt, at)) - 1)
  IN IF at # 0
     THEN ReplaceText("Do(function* () {\n  const obj = yield* $(Option(" \o baseVar
                        \o "))\n  return yield* $(Option(obj" \o rest \o "))\n})")
     ELSE ReplaceText("/* TODO: Convert to Do notation */ " \o txt)

\* the check without the look at the text
checkNestedNullChecks_DepthOnly(ctx, path) ==
  LET node == NodeAt(ctx.ast, path)
  IN IF node.name # "&&" THEN <<>>
     ELSE IF GuardDepth(node) >= 2
     THEN <<Report(path, "preferDoForNestedChecks", NoData,
                   IF hasDoImport(ctx.ast) THEN fixNestedChecks(node) ELSE NoFix)>>
     ELSE <<>>

checkNestedNullChecks(ctx, path) ==
  LET node == NodeAt(ctx.ast, path)
  IN IF node.name # "&&" THEN <<>>
     ELSE IF GuardDepth(node) >= 2 /\ hasNestedPropertyAccess(node)
     THEN <<Report(path, "preferDoForNestedChecks", NoData,
                   IF hasDoImport(ctx.ast) THEN fixNestedChecks(node) ELSE NoFix)>>
     ELSE <<>>

isChainedMethodCall(node, methodName) ==
  /\ node.type = "CallExpression"
  /\ callee(node).type = "MemberExpression"
  /\ property(callee(node)).type = "Identifier"
  /\ property(callee(node)).name = methodName

ChainableMethods == {"flatMap", "map", "filter", "fold"}

\* what the loop of getChainDepth adds to the initial depth
RECURSIVE ChainDepthFrom(_)
ChainDepthFrom(current) ==
  IF callee(current).type = "MemberExpression"
       /\ object(callee(current)).type = "CallExpression"
  THEN (IF /\ property(callee(current)).type = "Identifier"
           /\ property(callee(current)).name \in ChainableMethods
        THEN 1 ELSE 0) + ChainDepthFrom(object(callee(current)))
  ELSE 0

getChainDepth(node) == 1 + ChainDepthFrom(node)

fixChainedMethods(node) ==
  ReplaceText("/* TODO: Consider Do notation for complex chains */ " \o GetText(node))

checkChainedMethods(ctx, path) ==
  LET node == NodeAt(ctx.ast, path)
      chainDepth == getChainDepth(node)
  IN IF ~isChainedMethodCall(node, "flatMap") THEN <<>>
     ELSE IF chainDepth >= minChainDepth(ctx.options)
     THEN <<Report(path, "preferDoForChainedMethods", [count |-> ToString(chainDepth)],
                   IF hasDoImport(ctx.ast) THEN fixChainedMethods(node) ELSE NoFix)>>
     ELSE <<>>

MixableMonads == {"Option", "Either", "Try", "Task"}

checkMixedMonads(ctx, path) ==
  LET txt == GetText(NodeAt(ctx.ast, path))
      foundMonads == {t \in MixableMonads : includes(txt, t)}
  IN IF ~NotFalse(ctx.options, "detectMixedMonads") THEN <<>>
     ELSE IF Cardinality(foundMonads) >= 2
     THEN <<Report(path, "preferDoForMixedMonads", NoData, NoFix)>>
     ELSE <<>>

Visit_preferDoNotation_LogicalExpression ==
  /\ rule = "prefer-do-notation"
  /\ Visiting("LogicalExpression")
  /\ reports' = reports \o checkNestedNullChecks(Context, Head(todo))
  /\ Advance

Visit_preferDoNotation_CallExpression ==
  /\ rule = "prefer-do-notation"
  /\ Visiting("CallExpression")
  /\ reports' = reports \o checkChainedMethods(Context, Head(todo))
                        \o checkMixedMonads(Context, Head(todo))
  /\ Advance

\* the longest method chain of the input files
MaxChain == 3

And(l, r) == Node("LogicalExpression", "&&", <<l, r>>)
Or(l, r) == Node("LogicalExpression", "||", <<l, r>>)

ChainBases ==
  {Id("option1"), Member(Id("user"), "profile"), Call(Id("getOption"), <<>>),
   Call(Id("Option"), <<Id("x")>>), Call(Member(Id("repo"), "find"), <<Id("x")>>)}

ChainLinks == {<<"flatMap", "f">>, <<"map", "g">>, <<"flatMap", "toEither">>}

\* base.m1(a1).m2(a2)..., the links applied in order
RECURSIVE Chain(_, _)
Chain(base, links) ==
  IF links = <<>> THEN base
  ELSE Chain(Call(Member(base, Head(links)[1]), <<Id(Head(links)[2])>>), Tail(links))

\* guards of nested property access
GuardChains ==
  LET user == Id("user")
      address == Member(user, "address")
      city == Member(address, "city")
  IN {And(And(And(user, address), city), Member(city, "name")),
      And(And(user, address), city),
      And(user, And(address, city)),
      And(And(user, Call(Member(user, "isValid"), <<>>)), city),
      And(And(user, Member(user, "a")), Binary(Member(Id("x"), "y"), "===", Str("a.b.c"))),
      And(Or(And(user, address), city), city)}

DoStatements ==
  {Const(Id("r"), Chain(b, links)) :
     b \in ChainBases, links \in UNION {[1..k -> ChainLinks] : k \in 1..MaxChain}}
    \cup {Const(Id("city"), e) : e \in
            {And(And(Id("user"), Member(Id("user"), "address")),
                 Member(Member(Id("user"), "address"), "city")),
             And(Id("user"), Member(Member(Id("user"), "address"), "city")),
             And(And(Id("a"), Member(Id("a"), "b")), Member(Id("c"), "d")),
             Or(Or(Id("user"), Member(Id("user"), "address")),
                Member(Member(Id("user"), "address"), "city"))}}
    \cup {Const(Id("city"), e) : e \in GuardChains}
    \cup {Const(Id("city"), Call(Id(helper), <<Arrow(<<>>, e)>>)) :
            helper \in {"Do", "DoAsync", "run"}, e \in GuardChains}

DoPrograms ==
  {Program(imp, <<s>>) : imp \in {<<>>, <<"Do">>, <<"DoAsync", "Option">>}, s \in DoStatements}

DoOptions == {NoOptions, [minChainDepth |-> 2], [detectMixedMonads |-> FALSE]}

InitDo == InitRun("prefer-do-notation", DoPrograms, DoOptions, {"src/a.ts"})

NextDo ==
  \/ Visit_preferDoNotation_LogicalExpression
  \/ Visit_preferDoNotation_CallExpression
  \/ SkipNode

SpecDo == InitDo /\ [][NextDo]_vars


-----------------------------------------------------------------------------
(* rules/prefer-flatmap                                                    *)

isMapFollowedByFlat(node) ==
  /\ node.type = "CallExpression"
  /\ callee(node).type = "MemberExpression"
  /\ NameOf(property(callee(node))) = "flat"
  /\ object(callee(node)).type = "CallExpression"
  /\ callee(object(callee(node))).type = "MemberExpression"
  /\ NameOf(property(callee(object(callee(node))))) = "map"

ArrayMethods == {"map", "filter", "slice", "concat", "split"}

\* an array literal, or a call of a method that returns an array
IsArrayValue(e) ==
  \/ e.type = "ArrayExpression"
  \/ /\ e.type = "CallExpression"
     /\ callee(e).type = "MemberExpression"
     /\ NameOf(property(callee(e))) \in ArrayMethods

\* functionNode.body, of the nodes that have one
HasBody(fn) == fn.type \in {"ArrowFunctionExpression", "FunctionExpression"}
FunctionBody(fn) == fn.kids[Len(fn.kids)]

returnsArray(functionNode) ==
  /\ HasBody(functionNode)
  /\ LET fnBody == FunctionBody(functionNode)
     IN \/ IsArrayValue(fnBody)
        \/ /\ fnBody.type = "BlockStatement"
           /\ \E i \in 1..Len(fnBody.kids) :
                 /\ fnBody.kids[i].type = "ReturnStatement"
                 /\ fnBody.kids[i].kids # <<>>
                 /\ IsArrayValue(fnBody.kids[i].kids[1])

isNestedMapReturningArrays(node) ==
  /\ node.type = "CallExpression"
  /\ callee(node).type = "MemberExpression"
  /\ NameOf(property(callee(node))) = "map"
  /\ Len(arguments(node)) >= 1
  /\ HasBody(arguments(node)[1])
  /\ returnsArray(arguments(node)[1])

\* mapCallText.replace(/\.map\s*\(/, ".flatMap("): the first match only
replaceFirstMapCall(s) ==
  LET hits == {i \in 1..Len(s) :
                 OccursAt(s, ".map", i) /\ OccursAt(s, "(", SkipSpaces(s, i + 4))}
      at == CHOOSE i \in hits : \A j \in hits : i <= j
  IN IF hits = {} THEN s
     ELSE SubSeq(s, 1, at - 1) \o ".flatMap("
            \o SubSeq(s, SkipSpaces(s, at + 4) + 1, Len(s))

\* a visitor whose third check does not look at what follows the map call
preferFlatmap_CallExpression_NoFlatSkip(ctx, path) ==
  LET node == NodeAt(ctx.ast, path)
      checkNestedMaps == NotFalse(ctx.options, "checkNestedMaps")
      parent == NodeAt(ctx.ast, ParentPath(path))
      grandparent == NodeAt(ctx.ast, ParentPath(ParentPath(path)))
      obj == object(callee(node))
      isMapCall(c) == /\ c.type = "CallExpression"
                      /\ callee(c).type = "MemberExpression"
                      /\ NameOf(property(callee(c))) = "map"
      firstMapHasCallback == Len(arguments(obj)) >= 1
  IN IF isMapFollowedByFlat(node)
     THEN <<Report(path, "preferFlatMapOverMapFlat", NoData,
                   ReplaceText(replaceFirstMapCall(GetText(obj))))>>
     ELSE IF /\ callee(node).type = "MemberExpression"
             /\ NameOf(property(callee(node))) = "map"
             /\ isMapCall(obj)
             /\ firstMapHasCallback
             /\ returnsArray(arguments(obj)[1])
     THEN <<Report(path \o <<1, 1>>, "preferFlatMapChain", NoData, NoFix)>>
     ELSE IF checkNestedMaps /\ isNestedMapReturningArrays(node)
     THEN IF FALSE
          THEN <<>>
          ELSE IF isMapCall(obj) THEN <<>>
          ELSE IF /\ Len(path) >= 2
                  /\ parent.type = "MemberExpression"
                  /\ grandparent.type = "CallExpression"
                  /\ NameOf(property(callee(grandparent))) = "map"
          THEN <<>>
          ELSE <<Report(path, "preferFlatMapNested", NoData, NoFix)>>
     ELSE <<>>

\* a visitor that anchors the report for chained maps on the second map
preferFlatmap_CallExpression_ChainOnOuter(ctx, path) ==
  LET node == NodeAt(ctx.ast, path)
      checkNestedMaps == NotFalse(ctx.options, "checkNestedMaps")
      parent == NodeAt(ctx.ast, ParentPath(path))
      grandparent == NodeAt(ctx.ast, ParentPath(ParentPath(path)))
      obj == object(callee(node))
      isMapCall(c) == /\ c.type = "CallExpression"
                      /\ callee(c).type = "MemberExpression"
                      /\ NameOf(property(callee(c))) = "map"
      firstMapHasCallback == Len(arguments(obj)) >= 1
  IN IF isMapFollowedByFlat(node)
     THEN <<Report(path, "preferFlatMapOverMapFlat", NoData,
                   ReplaceText(replaceFirstMapCall(GetText(obj))))>>
     ELSE IF /\ callee(node).type = "MemberExpression"
             /\ NameOf(property(callee(node))) = "map"
             /\ isMapCall(obj)
             /\ firstMapHasCallback
             /\ returnsArray(arguments(obj)[1])
     THEN <<Report(path, "preferFlatMapChain", NoData, NoFix)>>
     ELSE IF checkNestedMaps /\ isNestedMapReturningArrays(node)
     THEN IF /\ Len(path) >= 2
               /\ parent.type = "MemberExpression"
               /\ grandparent.type = "CallExpression"
               /\ NameOf(property(parent)) = "flat"
          THEN <<>>
          ELSE IF isMapCall(obj) THEN <<>>
          ELSE IF /\ Len(path) >= 2
                  /\ parent.type = "MemberExpression"
                  /\ grandparent.type = "CallExpression"
                  /\ NameOf(property(callee(grandparent))) = "map"
          THEN <<>>
          ELSE <<Report(path, "preferFlatMapNested", NoData, NoFix)>>
     ELSE <<>>

preferFlatmap_CallExpression(ctx, path) ==
  LET node == NodeAt(ctx.ast, path)
      checkNestedMaps == NotFalse(ctx.options, "checkNestedMaps")
      parent == NodeAt(ctx.ast, ParentPath(path))
      grandparent == NodeAt(ctx.ast, ParentPath(ParentPath(path)))
      obj == object(callee(node))
      isMapCall(c) == /\ c.type = "CallExpression"
                      /\ callee(c).type = "MemberExpression"
                      /\ NameOf(property(callee(c))) = "map"
      firstMapHasCallback == Len(arguments(obj)) >= 1
  IN IF isMapFollowedByFlat(node)
     THEN <<Report(path, "preferFlatMapOverMapFlat", NoData,
                   ReplaceText(replaceFirstMapCall(GetText(obj))))>>
     ELSE IF /\ callee(node).type = "MemberExpression"
             /\ NameOf(property(callee(node))) = "map"
             /\ isMapCall(obj)
             /\ firstMapHasCallback
             /\ returnsArray(arguments(obj)[1])
     THEN <<Report(path \o <<1, 1>>, "preferFlatMapChain", NoData, NoFix)>>
     ELSE IF checkNestedMaps /\ isNestedMapReturningArrays(node)
     THEN IF /\ Len(path) >= 2
               /\ parent.type = "MemberExpression"
               /\ grandparent.type = "CallExpression"
               /\ NameOf(property(parent)) = "flat"
          THEN <<>>
          ELSE IF isMapCall(obj) THEN <<>>
          ELSE IF /\ Len(path) >= 2
                  /\ parent.type = "MemberExpression"
                  /\ grandparent.type = "CallExpression"
                  /\ NameOf(property(callee(grandparent))) = "map"
          THEN <<>>
          ELSE <<Report(path, "preferFlatMapNested", NoData, NoFix)>>
     ELSE <<>>

Visit_preferFlatmap_CallExpression ==
  /\ rule = "prefer-flatmap"
  /\ Visiting("CallExpression")
  /\ reports' = reports \o preferFlatmap_CallExpression(Context, Head(todo))
  /\ Advance

\* the longest chain of calls of the input files
MaxCalls == 3

Callbacks ==
  {Id("f"),
   Arrow(<<Id("x")>>, Node("ArrayExpression", "", <<Id("x")>>)),
   Arrow(<<Id("x")>>, Call(Member(Id("x"), "map"), <<Id("g")>>)),
   Arrow(<<Id("x")>>, Block(<<Return(Node("ArrayExpression", "", <<Id("x")>>))>>))}

RECURSIVE CallChains(_)
CallChains(k) ==
  IF k = 0 THEN {Id("items")}
  ELSE LET shorter == CallChains(k - 1)
       IN {Id("items")}
            \cup {Call(Member(e, "map"), <<cb>>) : e \in shorter, cb \in Callbacks}
            \cup {Call(Member(e, "flat"), <<>>) : e \in shorter}
            \cup {Call(Member(e, "filter"), <<Id("p")>>) : e \in shorter}

FlatMapStatements ==
  {Const(Id("r"), e) : e \in CallChains(MaxCalls)}
    \cup {Const(Id("r"), e) : e \in
            {Call(Member(Node("CallExpression", " ", <<Member(Id("items"), "map"), Id("f")>>),
                         "flat"), <<>>),
             Call(Member(Call(Member(Id("items"), "map"), <<Id("f")>>), "flat"),
                  <<Num("1")>>),
             Call(Computed(Call(Member(Id("items"), "map"),
                                <<Arrow(<<Id("x")>>,
                                        Node("ArrayExpression", "", <<Id("x")>>))>>),
                           Str("flat")), <<>>),
             \* a map call whose member is passed on, not called
             Call(Member(Id("xs"), "map"),
                  <<Member(Call(Member(Id("items"), "map"),
                                <<Arrow(<<Id("x")>>,
                                        Node("ArrayExpression", "", <<Id("x")>>))>>),
                           "length")>>),
             Call(Id("f"),
                  <<Member(Call(Member(Id("items"), "map"),
                                <<Arrow(<<Id("x")>>,
                                        Node("ArrayExpression", "", <<Id("x")>>))>>),
                           "flat")>>)}}

FlatMapPrograms == {Program(<<>>, <<s>>) : s \in FlatMapStatements}

FlatMapOptions == {NoOptions, [checkNestedMaps |-> FALSE]}

InitFlatMap == InitRun("prefer-flatmap", FlatMapPrograms, FlatMapOptions, {"src/a.ts"})

NextFlatMap ==
  \/ Visit_preferFlatmap_CallExpression
  \/ SkipNode
  \/ ApplyFix

SpecFlatMap == InitFlatMap /\ [][NextFlatMap]_vars


-----------------------------------------------------------------------------
(* rules/prefer-list                                                       *)

\* findTypeParameter: the text of the first type argument found in node,
\* searching the node and then its children in order; Undefined for null
RECURSIVE findTypeParameter(_)
RECURSIVE FindInKids(_, _)
findTypeParameter(n) ==
  IF n.type = "TSTypeParameterInstantiation" /\ n.kids # <<>>
  THEN GetText(n.kids[1])
  ELSE FindInKids(n, 1)
FindInKids(n, i) ==
  IF i > Len(n.kids) THEN Undefined
  ELSE IF findTypeParameter(n.kids[i]) # Undefined THEN findTypeParameter(n.kids[i])
  ELSE FindInKids(n, i + 1)

preferList_TSArrayType(ctx, path) ==
  LET node == NodeAt(ctx.ast, path)
      allowArraysInTests == NotFalse(ctx.options, "allowArraysInTests")
  IN IF allowArraysInTests /\ isInTestFile(ctx.filename) THEN <<>>
     ELSE <<Report(path, "preferList",
                   [type |-> GetText(node.kids[1]), arrayType |-> GetText(node)], NoFix)>>

\* a visitor for which allowReadonlyArrays lets ReadonlyArray<T> through
preferList_TSTypeReference_AllowReadonly(ctx, path) ==
  LET node == NodeAt(ctx.ast, path)
      allowArraysInTests == NotFalse(ctx.options, "allowArraysInTests")
      allowReadonlyArrays == NotFalse(ctx.options, "allowReadonlyArrays")
      typeName == node.name
      typeParam == findTypeParameter(node)
      fullType == GetText(node)
      report == Report(path, "preferList",
                       [type |-> IF typeParam # Undefined THEN typeParam ELSE "T",
                        arrayType |-> fullType], NoFix)
  IN IF allowArraysInTests /\ isInTestFile(ctx.filename) THEN <<>>
     ELSE IF typeName = "Array"
     THEN IF allowReadonlyArrays /\ startsWith(fullType, "readonly") THEN <<>>
          ELSE <<report>>
     ELSE IF typeName = "ReadonlyArray"
     THEN IF allowReadonlyArrays THEN <<>> ELSE <<report>>
     ELSE <<>>

preferList_TSTypeReference(ctx, path) ==
  LET node == NodeAt(ctx.ast, path)
      allowArraysInTests == NotFalse(ctx.options, "allowArraysInTests")
      allowReadonlyArrays == NotFalse(ctx.options, "allowReadonlyArrays")
      typeName == node.name
      typeParam == findTypeParameter(node)
      fullType == GetText(node)
      report == Report(path, "preferList",
                       [type |-> IF typeParam # Undefined THEN typeParam ELSE "T",
                        arrayType |-> fullType], NoFix)
  IN IF allowArraysInTests /\ isInTestFile(ctx.filename) THEN <<>>
     ELSE IF typeName = "Array"
     THEN IF allowReadonlyArrays /\ startsWith(fullType, "readonly") THEN <<>>
          ELSE <<report>>
     ELSE IF typeName = "ReadonlyArray" THEN <<report>>
     ELSE <<>>

\* the array-literal visitor without the check for an enclosing literal
preferList_ArrayExpression_NoNestedSkip(ctx, path) ==
  LET node == NodeAt(ctx.ast, path)
      allowArraysInTests == NotFalse(ctx.options, "allowArraysInTests")
      functypeImports == getFunctypeImportsLegacy(ctx.ast)
      parent == NodeAt(ctx.ast, ParentPath(path))
      ancestors == {NodeAt(ctx.ast, a) : a \in AncestorPaths(path)}
  IN IF allowArraysInTests /\ isInTestFile(ctx.filename) THEN <<>>
     ELSE IF node.kids = <<>> THEN <<>>
     ELSE IF path # <<>> /\ isFunctypeCall(parent, functypeImports) THEN <<>>
     ELSE IF \E a \in ancestors :
                \/ a.type = "VariableDeclarator" /\ a.kids[1].kids # <<>>
                \/ a.type = "TSTypeAnnotation"
     THEN <<>>
     ELSE <<Report(path, "preferListLiteral", NoData, NoFix)>>

preferList_ArrayExpression(ctx, path) ==
  LET node == NodeAt(ctx.ast, path)
      allowArraysInTests == NotFalse(ctx.options, "allowArraysInTests")
      functypeImports == getFunctypeImportsLegacy(ctx.ast)
      parent == NodeAt(ctx.ast, ParentPath(path))
      ancestors == {NodeAt(ctx.ast, a) : a \in AncestorPaths(path)}
  IN IF allowArraysInTests /\ isInTestFile(ctx.filename) THEN <<>>
     ELSE IF node.kids = <<>> THEN <<>>
     ELSE IF path # <<>> /\ isFunctypeCall(parent, functypeImports) THEN <<>>
     ELSE IF /\ path # <<>>
             /\ parent.type = "CallExpression"
             /\ callee(parent).type = "MemberExpression"
             /\ object(callee(parent)).type = "Identifier"
             /\ object(callee(parent)).name = "List"
             /\ NameOf(property(callee(parent))) \in {"from", "of"}
     THEN <<>>
     ELSE IF \E a \in ancestors : a.type = "ArrayExpression" THEN <<>>
     ELSE IF \E a \in ancestors :
                \/ a.type = "VariableDeclarator" /\ a.kids[1].kids # <<>>
                \/ a.type = "TSTypeAnnotation"
     THEN <<>>
     ELSE <<Report(path, "preferListLiteral", NoData, NoFix)>>

Visit_preferList_TSArrayType ==
  /\ rule = "prefer-list"
  /\ Visiting("TSArrayType")
  /\ reports' = reports \o preferList_TSArrayType(Context, Head(todo))
  /\ Advance

Visit_preferList_TSTypeReference ==
  /\ rule = "prefer-list"
  /\ Visiting("TSTypeReference")
  /\ reports' = reports \o preferList_TSTypeReference(Context, Head(todo))
  /\ Advance

Visit_preferList_ArrayExpression ==
  /\ rule = "prefer-list"
  /\ Visiting("ArrayExpression")
  /\ reports' = reports \o preferList_ArrayExpression(Context, Head(todo))
  /\ Advance

-----------------------------------------------------------------------------
(* rules/no-imperative-loops                                               *)

\* /\[\s*\w+\s*\]/.test(s)
HasIndexAccess(s) ==
  \E i \in 1..Len(s) :
     /\ OccursAt(s, "[", i)
     /\ LET w == SkipSpaces(s, i + 1)
        IN /\ WordEnd(s, w) > w
           /\ OccursAt(s, "]", SkipSpaces(s, WordEnd(s, w)))

\* of a ForStatement: init, test, update, body
needsIndexAccess(node) ==
  /\ node.kids[4].type = "BlockStatement"
  /\ HasIndexAccess(GetText(node.kids[4]))
  /\ node.kids[1].type = "VariableDeclaration"

noImperativeLoops_ForStatement(ctx, path) ==
  LET node == NodeAt(ctx.ast, path)
      allowForIndexAccess == Truthy(ctx.options, "allowForIndexAccess")
      allowInTests == NotFalse(ctx.options, "allowInTests")
  IN IF allowInTests /\ isInTestFile(ctx.filename) THEN <<>>
     ELSE IF allowForIndexAccess /\ needsIndexAccess(node) THEN <<>>
     ELSE <<Report(path, "noForLoop", NoData, NoFix)>>

noImperativeLoops_ForInStatement(ctx, path) ==
  LET allowInTests == NotFalse(ctx.options, "allowInTests")
  IN IF allowInTests /\ isInTestFile(ctx.filename) THEN <<>>
     ELSE <<Report(path, "noForInLoop", NoData, NoFix)>>

noImperativeLoops_ForOfStatement(ctx, path) ==
  LET allowInTests == NotFalse(ctx.options, "allowInTests")
  IN IF allowInTests /\ isInTestFile(ctx.filename) THEN <<>>
     ELSE <<Report(path, "noForOfLoop", NoData, NoFix)>>

noImperativeLoops_WhileStatement(ctx, path) ==
  LET allowWhileLoops == Truthy(ctx.options, "allowWhileLoops")
      allowInTests == NotFalse(ctx.options, "allowInTests")
  IN IF allowWhileLoops THEN <<>>
     ELSE IF allowInTests /\ isInTestFile(ctx.filename) THEN <<>>
     ELSE <<Report(path, "noWhileLoop", NoData, NoFix)>>

noImperativeLoops_DoWhileStatement(ctx, path) ==
  LET allowWhileLoops == Truthy(ctx.options, "allowWhileLoops")
      allowInTests == NotFalse(ctx.options, "allowInTests")
  IN IF allowWhileLoops THEN <<>>
     ELSE IF allowInTests /\ isInTestFile(ctx.filename) THEN <<>>
     ELSE <<Report(path, "noDoWhileLoop", NoData, NoFix)>>

Visit_noImperativeLoops_ForStatement ==
  /\ rule = "no-imperative-loops"
  /\ Visiting("ForStatement")
  /\ reports' = reports \o noImperativeLoops_ForStatement(Context, Head(todo))
  /\ Advance

Visit_noImperativeLoops_ForInStatement ==
  /\ rule = "no-imperative-loops"
  /\ Visiting("ForInStatement")
  /\ reports' = reports \o noImperativeLoops_ForInStatement(Context, Head(todo))
  /\ Advance

Visit_noImperativeLoops_ForOfStatement ==
  /\ rule = "no-imperative-loops"
  /\ Visiting("ForOfStatement")
  /\ reports' = reports \o noImperativeLoops_ForOfStatement(Context, Head(todo))
  /\ Advance

Visit_noImperativeLoops_WhileStatement ==
  /\ rule = "no-imperative-loops"
  /\ Visiting("WhileStatement")
  /\ reports' = reports \o noImperativeLoops_WhileStatement(Context, Head(todo))
  /\ Advance

Visit_noImperativeLoops_DoWhileStatement ==
  /\ rule = "no-imperative-loops"
  /\ Visiting("DoWhileStatement")
  /\ reports' = reports \o noImperativeLoops_DoWhileStatement(Context, Head(todo))
  /\ Advance

-----------------------------------------------------------------------------
(* The four rules with a test-file exemption, run on files of many names.  *)

Let(id, init) ==
  Node("VariableDeclaration", "let", <<Node("VariableDeclarator", "", <<id, init>>)>>)
Declare(kind, id) ==
  Node("VariableDeclaration", kind, <<Node("VariableDeclarator", "", <<id>>)>>)
Array(elems) == Node("ArrayExpression", "", elems)
Update(e, op) == Node("UpdateExpression", op, <<e>>)
Assign(l, op, r) == Node("AssignmentExpression", op, <<l, r>>)
For(init, cond, update, stmts) ==
  Node("ForStatement", "", <<init, cond, update, Block(stmts)>>)
ForIn(left, right, stmts) == Node("ForInStatement", "", <<left, right, Block(stmts)>>)
ForOf(left, right, stmts) == Node("ForOfStatement", "", <<left, right, Block(stmts)>>)
While(cond, stmts) == Node("WhileStatement", "", <<cond, Block(stmts)>>)
DoWhile(stmts, cond) == Node("DoWhileStatement", "", <<Block(stmts), cond>>)

Push(e) == ExprStmt(Call(Member(Id("out"), "push"), <<e>>))

LoopStatements ==
  {For(Let(Id("i"), Num("0")), Binary(Id("i"), "<", Id("n")), Update(Id("i"), "++"),
       <<Push(Computed(Id("xs"), Id("i")))>>),
   For(Assign(Id("i"), "=", Num("0")), Binary(Id("i"), "<", Id("n")),
       Update(Id("i"), "++"), <<Push(Computed(Id("xs"), Id("i")))>>),
   For(Let(Id("i"), Num("0")), Binary(Id("i"), "<", Id("n")), Update(Id("i"), "++"),
       <<Log>>),
   ForIn(Declare("const", Id("k")), Id("obj"), <<Log>>),
   ForOf(Declare("const", Id("x")), Id("xs"), <<Push(Id("x"))>>),
   While(Id("busy"), <<Risky>>),
   DoWhile(<<Risky>>, Id("busy")),
   While(Id("busy"), <<ForOf(Declare("const", Id("x")), Id("xs"), <<Log>>)>>)}

ListStatements ==
  {Const(TypedId("xs", TArray(TString)), Array(<<>>)),
   Const(TypedId("xs", TRefOf("Array", <<TString>>)), Array(<<>>)),
   Const(TypedId("xs", TRefOf("ReadonlyArray", <<TString>>)), Array(<<Str("a")>>)),
   Const(TypedId("xs", TRef("Array")), Array(<<>>)),
   Const(TypedId("o", TRefOf("Option", <<TArray(TString)>>)), Id("none")),
   Const(Id("xs"), Array(<<Num("1"), Num("2")>>)),
   Const(Id("xs"), Array(<<Array(<<Num("1")>>), Array(<<Num("2")>>)>>)),
   Const(Id("xs"), Call(Member(Id("List"), "from"), <<Array(<<Num("1")>>)>>)),
   Const(Id("xs"), Call(Id("toList"), <<Array(<<Num("1")>>)>>))}

ExemptEitherStatements ==
  {Try(<<Risky>>, "error", <<Log>>), Try(<<Risky>>, "error", <<Throw>>), Throw,
   FunctionOf("f", TString, <<Throw>>),
   FunctionOf("f", TString, <<Try(<<Risky>>, "error", <<Log>>)>>)}

ExemptGetStatements ==
  {ExprStmt(Call(Member(r, mth), <<>>)) :
     r \in {Id("option"), Id("cache"), Call(Member(Id("option"), "get"), <<>>)},
     mth \in {"get", "unwrap", "getOrElse"}}

\* the option of each rule that exempts test files
ExemptionOption(r) ==
  CASE r = "prefer-either" -> "allowThrowInTests"
    [] r = "prefer-list" -> "allowArraysInTests"
    [] r \in {"no-get-unsafe", "no-imperative-loops"} -> "allowInTests"

ExemptOptions(r) ==
  {NoOptions} \cup {[k \in {ExemptionOption(r)} |-> b] : b \in BOOLEAN}
    \cup (IF r = "no-imperative-loops"
          THEN {[allowWhileLoops |-> TRUE], [allowForIndexAccess |-> TRUE]}
          ELSE {})

FileNames ==
  {"src/a.ts", "src/a.test.ts", "src/a.spec.ts", "src/a.test.js", "src/a.spec.jsx",
   "src/a.test.tsx", "src/__tests__/a.ts", "src/test/a.ts", "src/tests/a.ts",
   "src/latest/a.ts", "tests/a.ts", "src/contest.ts", "src/a.test.mjs",
   "src/a.test.ts.bak", "src/a.Test.ts", "src/test.ts", "src/a.tests.ts",
   "__tests__", "src/attest/tests.ts"}

InitExempt ==
  \/ InitRun("prefer-either", {Program(<<>>, <<s>>) : s \in ExemptEitherStatements},
             ExemptOptions("prefer-either"), FileNames)
  \/ InitRun("prefer-list", {Program(<<>>, <<s>>) : s \in ListStatements},
             ExemptOptions("prefer-list"), FileNames)
  \/ InitRun("no-get-unsafe", {Program(<<>>, <<s>>) : s \in ExemptGetStatements},
             ExemptOptions("no-get-unsafe"), FileNames)
  \/ InitRun("no-imperative-loops", {Program(<<>>, <<s>>) : s \in LoopStatements},
             ExemptOptions("no-imperative-loops"), FileNames)

NextExempt ==
  \/ Visit_preferEither_TryStatement
  \/ Visit_preferEither_ThrowStatement
  \/ Visit_preferEither_FunctionDeclaration
  \/ Visit_preferList_TSArrayType
  \/ Visit_preferList_TSTypeReference
  \/ Visit_preferList_ArrayExpression
  \/ Visit_noGetUnsafe_CallExpression
  \/ Visit_noImperativeLoops_ForStatement
  \/ Visit_noImperativeLoops_ForInStatement
  \/ Visit_noImperativeLoops_ForOfStatement
  \/ Visit_noImperativeLoops_WhileStatement
  \/ Visit_noImperativeLoops_DoWhileStatement
  \/ SkipNode

SpecExempt == InitExempt /\ [][NextExempt]_vars


-----------------------------------------------------------------------------
(* The three rules with a single-step rewrite, each run, fixed once and    *)
(* run again on the rewritten text.                                        *)

InitFix ==
  \/ InitOptionFixable
  \/ InitRun("no-get-unsafe", GetPrograms, {NoOptions}, {"src/a.ts"})
  \/ InitRun("prefer-flatmap", FlatMapPrograms, {NoOptions}, {"src/a.ts"})

NextFix ==
  \/ Visit_preferOptionFixable_TSUnionType
  \/ Visit_noGetUnsafe_CallExpression
  \/ Visit_preferFlatmap_CallExpression
  \/ SkipNode
  \/ ApplyFix

SpecFix == InitFix /\ [][NextFix]_vars


-----------------------------------------------------------------------------
(* Properties.                                                             *)

Range(seq) == {seq[i] : i \in 1..Len(seq)}

\* the nodes of the file the traversal has visited
VisitedPaths == Range(PreOrder(ast)) \ Range(todo)

\* the reports anchored on the node at path, in the order they were made
ReportsAt(path) == SelectSeq(reports, LAMBDA r : r.node = path)

\* the arms of a union that are neither null nor undefined
NonNullArms(u) == {i \in 1..Len(u.kids) : ~IsNullishType(u.kids[i])}
SoleNonNullArm(u) == u.kids[CHOOSE i \in NonNullArms(u) : TRUE]

\* a union the Nullable-Type Detector is to report
NullableToReport(root, path) ==
  LET u == NodeAt(root, path)
      imported == getFunctypeImports(root).all
  IN /\ Len(u.kids) >= 2
     /\ \E i \in 1..Len(u.kids) : u.kids[i].type \in {"TSNullKeyword", "TSUndefinedKeyword"}
     /\ Cardinality(NonNullArms(u)) = 1
     /\ ~isFunctypeType(SoleNonNullArm(u), imported)
     /\ ~startsWith(GetText(SoleNonNullArm(u)), "Option<")
     /\ ~isAlreadyUsingFunctype(root, path, imported)

\* C1: prefer-option reports a visited union type exactly once, with the
\* text of its sole non-null arm and the text of the whole union, if the
\* union has at least 2 arms, a null or undefined arm, exactly one other arm
\* and no suppression applies (the arm is no container type reference, its
\* text does not start with "Option<", no ancestor is a functional-style
\* call or a container type); it reports nothing for any other union
\* (A | B | null among them) and nothing on any other node.
C1_PreferOptionReports ==
  /\ \A p \in VisitedPaths :
       NodeAt(ast, p).type = "TSUnionType" =>
         IF NullableToReport(ast, p)
         THEN /\ Len(ReportsAt(p)) = 1
              /\ ReportsAt(p)[1].messageId = "preferOption"
              /\ ReportsAt(p)[1].data =
                   [type |-> GetText(SoleNonNullArm(NodeAt(ast, p))),
                    nullable |-> GetText(NodeAt(ast, p))]
         ELSE ReportsAt(p) = <<>>
  /\ \A i \in 1..Len(reports) : NodeAt(ast, reports[i].node).type = "TSUnionType"

\* the traversal is over: `const v: string | null = null` was reported once
\* and a file with `string | Tuple | null` was not
C1_Witness ==
  /\ todo = <<>>
  /\ \/ /\ text = "const v: string | null = null"
        /\ reports = <<Report(<<1, 1, 1, 1, 1>>, "preferOption",
                              [type |-> "string", nullable |-> "string | null"], NoFix)>>

\* C2: the fix of prefer-option replaces exactly the text of the union by
\* "Option<" + the text of the sole non-null arm + ">" and leaves the text
\* before and after the union as it was.
C2_FixRewritesOnlyTheUnion ==
  [][pass' = 2 /\ pass = 1 =>
       LET u == NodeAt(ast, applied'.node)
           start == RangeStart(ast, applied'.node)
           len == Len(GetText(u))
       IN /\ u.type = "TSUnionType"
          /\ SubSeq(text, start + 1, start + len) = GetText(u)
          /\ text' = SubSeq(text, 1, start)
                       \o "Option<" \o GetText(SoleNonNullArm(u)) \o ">"
                       \o SubSeq(text, start + len + 1, Len(text))
          /\ (text = "const v: string | null = null"
                => text' = "const v: Option<string> = null")]_vars

\* the fix was applied to `const v: string | null = null`
C2_Witness ==
  /\ pass = 2
  /\ applied.data = [type |-> "string", nullable |-> "string | null"]
  /\ text = "const v: Option<string> = null"

\* the file is exempt from prefer-either: a test file, and test files allowed
ThrowExempt == NotFalse(options, "allowThrowInTests") /\ isInTestFile(filename)

\* a try statement whose catch handler has a throw statement directly in
\* its body
RethrowsImmediately(t) ==
  /\ t.name # "finally"
  /\ \E i \in 1..Len(t.kids[2].kids[1].kids) :
        t.kids[2].kids[1].kids[i].type = "ThrowStatement"

\* C3: in a file that is not test-exempt, prefer-either reports a visited
\* try statement exactly once with preferEitherOverTryCatch if the immediate
\* body of its catch handler has no throw statement, and not at all if it
\* has one.
C3_TryReportedUnlessRethrown ==
  ~ThrowExempt =>
    \A p \in VisitedPaths :
       NodeAt(ast, p).type = "TryStatement" =>
         IF RethrowsImmediately(NodeAt(ast, p))
         THEN ReportsAt(p) = <<>>
         ELSE ReportsAt(p) = <<Report(p, "preferEitherOverTryCatch", NoData, NoFix)>>

\* the traversal is over for a file with a handler that logs and rethrows,
\* which was not reported
C3_Witness ==
  /\ todo = <<>>
  /\ ~ThrowExempt
  /\ text = "try { risky() } catch (error) { console.log(error); throw error }"
  /\ reports = <<>>

\* an if statement that is not the else-if link of another if statement
IsChainHead(root, path) ==
  ~(/\ path # <<>>
    /\ NodeAt(root, ParentPath(path)).type = "IfStatement"
    /\ path[Len(path)] = 3)

PreferFoldReportsAt(path) == SelectSeq(ReportsAt(path), LAMBDA r : r.messageId = "preferFold")

\* C4: prefer-fold reports a visited if statement whose test is a monadic
\* check and which is the head of its if/else chain exactly once with
\* preferFold if the complexity of the chain is at least minComplexity
\* (default 2) and not at all if it is less; an if (opt.isSome()) with an
\* else is reported once with type Option by default and not at all when
\* minComplexity is 3.
C4_HeadOfChainReported ==
  /\ \A p \in VisitedPaths :
       LET node == NodeAt(ast, p) IN
       (/\ node.type = "IfStatement"
        /\ isMonadicCheck(test(node)).isMonadic
        /\ IsChainHead(ast, p))
         => Len(PreferFoldReportsAt(p)) =
              (IF ChainComplexity(node) >= minComplexity(options) THEN 1 ELSE 0)
  /\ (todo = <<>> /\ text = "if (opt.isSome()) { return 1 } else { return 0 }")
       => IF minComplexity(options) = 3 THEN reports = <<>>
          ELSE /\ Len(reports) = 1
               /\ reports[1].messageId = "preferFold"
               /\ reports[1].data = [type |-> "Option"]

SafeCallSuffix == ".getOrElse(/* TODO: provide default value */)"

GetExempt == NotFalse(options, "allowInTests") /\ isInTestFile(filename)

\* the words of s: the maximal runs of word characters
Words(s) ==
  {SubSeq(s, i, j) : <<i, j>> \in
     {ij \in (1..Len(s)) \X (1..Len(s)) :
        /\ ij[1] <= ij[2]
        /\ \A k \in ij[1]..ij[2] : IsWordChar(CharAt(s, k))
        /\ (ij[1] = 1 \/ ~IsWordChar(CharAt(s, ij[1] - 1)))
        /\ (ij[2] = Len(s) \/ ~IsWordChar(CharAt(s, ij[2] + 1)))}}

RECURSIVE Blank(_)
Blank(k) == IF k = 0 THEN "" ELSE " " \o Blank(k - 1)

\* the layered classification of a receiver as a likely monadic value
RECURSIVE ClassifiedMonadic(_)
ClassifiedMonadic(r) ==
  LET txt == GetText(r) IN
  \* a container or variant name is a word of the text, or starts one
  \/ \E w \in Words(txt) :
        \/ w \in MonadNames
        \/ \E mw \in MonadWords : startsWith(toLowerCase(w), mw)
  \* the text has a call of map, flatMap, filter or fold
  \/ \E mth \in {"map", "flatMap", "filter", "fold"}, k \in 0..Len(txt) :
        includes(txt, "." \o mth \o Blank(k) \o "(")
  \* a plain identifier with a monad-ish name
  \/ /\ r.type = "Identifier"
     /\ \E mw \in MonadWords \cup {"opt"} : includes(toLowerCase(r.name), mw)
  \* a chained call on a classified receiver
  \/ /\ r.type = "CallExpression"
     /\ r.kids[1].type = "MemberExpression"
     /\ ClassifiedMonadic(r.kids[1].kids[1])

UnsafeCall(c) ==
  /\ c.kids[1].type = "MemberExpression"
  /\ c.kids[1].kids[2].type = "Identifier"
  /\ c.kids[1].kids[2].name \in unsafeMethods(options)
  /\ ClassifiedMonadic(c.kids[1].kids[1])

\* C10: in a file that is not test-exempt, no-get-unsafe reports a visited
\* call exactly once, with noUnsafeGet and the method name, if its callee is
\* a member expression whose property is an identifier of the configured
\* unsafe list (default get, getOrThrow, unwrap, expect) and its receiver
\* is classified as monadic by the layered heuristic; any other call
\* (getData, getOrElse, map, fold, or map.get(key) on an unclassified
\* receiver) is not reported, and nothing but calls is reported.
C10_UnsafeCallsReported ==
  ~GetExempt =>
    /\ \A p \in VisitedPaths :
         NodeAt(ast, p).type = "CallExpression" =>
           IF UnsafeCall(NodeAt(ast, p))
           THEN /\ Len(ReportsAt(p)) = 1
                /\ ReportsAt(p)[1].messageId = "noUnsafeGet"
                /\ ReportsAt(p)[1].data =
                     [method |-> NodeAt(ast, p).kids[1].kids[2].name]
           ELSE ReportsAt(p) = <<>>
    /\ \A i \in 1..Len(reports) : NodeAt(ast, reports[i].node).type = "CallExpression"
    /\ (text = "map.get(\"key\")" \/ text = "option.getOrElse(\"key\")") => reports = <<>>

\* the traversal is over for `adopt.find(k).get()`, reported through the
\* receiver of its chained call
C10_Witness ==
  /\ todo = <<>>
  /\ pass = 1
  /\ text = "adopt.find(k).get()"
  /\ Len(reports) = 1
  /\ reports[1].node = <<1, 1>>
  /\ reports[1].data = [method |-> "get"]

\* the number of chained .flatMap() calls that the call heads
RECURSIVE FlatMapChainLength(_)
FlatMapChainLength(n) ==
  IF /\ n.type = "CallExpression"
     /\ n.kids[1].type = "MemberExpression"
     /\ n.kids[1].name = "."
     /\ n.kids[1].kids[2].name = "flatMap"
  THEN 1 + FlatMapChainLength(n.kids[1].kids[1])
  ELSE 0

ChainedMethodReportsAt(path) ==
  SelectSeq(ReportsAt(path), LAMBDA r : r.messageId = "preferDoForChainedMethods")

\* C6: with the default minChainDepth of 3, prefer-do-notation does not
\* report a visited call that heads exactly 2 chained .flatMap() calls with
\* preferDoForChainedMethods, whatever the base receiver is, and reports a
\* call that heads n >= 3 chained .flatMap() calls once, with count n.
C6_ChainedFlatMapBoundary ==
  "minChainDepth" \notin DOMAIN options =>
    \A p \in VisitedPaths :
       LET n == FlatMapChainLength(NodeAt(ast, p)) IN
       /\ n = 2 => ChainedMethodReportsAt(p) = <<>>
       /\ n >= 3 => /\ Len(ChainedMethodReportsAt(p)) = 1
                    /\ ChainedMethodReportsAt(p)[1].data = [count |-> ToString(n)]

\* a call X.map(cb).flat()
IsMapThenFlat(n) ==
  /\ n.type = "CallExpression"
  /\ Len(n.kids) = 1
  /\ n.kids[1].type = "MemberExpression"
  /\ n.kids[1].name = "."
  /\ n.kids[1].kids[2].name = "flat"
  /\ n.kids[1].kids[1].type = "CallExpression"
  /\ n.kids[1].kids[1].kids[1].type = "MemberExpression"
  /\ n.kids[1].kids[1].kids[1].name = "."
  /\ n.kids[1].kids[1].kids[1].kids[2].name = "map"

\* C7: for a visited call X.map(cb).flat(), the reports anchored on the
\* .flat() call are exactly one preferFlatMapOverMapFlat, and the map call
\* inside it never has a report of its own (no preferFlatMapNested, even
\* when cb returns an array), whether or not it has been visited yet.
C7_MapFlatReportedOnce ==
  \A p \in VisitedPaths :
     IsMapThenFlat(NodeAt(ast, p)) =>
       /\ Len(ReportsAt(p)) = 1
       /\ ReportsAt(p)[1].messageId = "preferFlatMapOverMapFlat"
       /\ ReportsAt(p \o <<1, 1>>) = <<>>

\* the traversal is over for `items.map(x => [x]).flat()`, whose callback
\* returns an array: only the .flat() call was reported
C7_Witness ==
  /\ todo = <<>>
  /\ pass = 1
  /\ options = NoOptions
  /\ text = "const r = items.map(x => [x]).flat()"
  /\ Len(reports) = 1
  /\ reports[1].node = <<1, 1, 2>>
  /\ reports[1].messageId = "preferFlatMapOverMapFlat"

\* a file name of a test: it ends in .test or .spec and .ts, .js, .tsx or
\* .jsx, or it contains __tests__, /test/ or /tests/
TestFileName(name) ==
  \/ \E suffix \in {".test.ts", ".test.js", ".test.tsx", ".test.jsx",
                    ".spec.ts", ".spec.js", ".spec.tsx", ".spec.jsx"} :
        /\ Len(name) >= Len(suffix)
        /\ SubSeq(name, Len(name) - Len(suffix) + 1, Len(name)) = suffix
  \/ \E i \in 1..Len(name), part \in {"__tests__", "/test/", "/tests/"} :
        /\ i + Len(part) - 1 <= Len(name)
        /\ SubSeq(name, i, i + Len(part) - 1) = part

\* what the visitor of rule r for the node at path reports
RuleReports(r, ctx, path) ==
  LET t == NodeAt(ctx.ast, path).type IN
  CASE r = "prefer-either" /\ t = "TryStatement" -> preferEither_TryStatement(ctx, path)
    [] r = "prefer-either" /\ t = "ThrowStatement" -> preferEither_ThrowStatement(ctx, path)
    [] r = "prefer-either" /\ t = "FunctionDeclaration" ->
         preferEither_FunctionDeclaration(ctx, path)
    [] r = "prefer-list" /\ t = "TSArrayType" -> preferList_TSArrayType(ctx, path)
    [] r = "prefer-list" /\ t = "TSTypeReference" -> preferList_TSTypeReference(ctx, path)
    [] r = "prefer-list" /\ t = "ArrayExpression" -> preferList_ArrayExpression(ctx, path)
    [] r = "no-get-unsafe" /\ t = "CallExpression" -> noGetUnsafe_CallExpression(ctx, path)
    [] r = "no-imperative-loops" /\ t = "ForStatement" ->
         noImperativeLoops_ForStatement(ctx, path)
    [] r = "no-imperative-loops" /\ t = "ForInStatement" ->
         noImperativeLoops_ForInStatement(ctx, path)
    [] r = "no-imperative-loops" /\ t = "ForOfStatement" ->
         noImperativeLoops_ForOfStatement(ctx, path)
    [] r = "no-imperative-loops" /\ t = "WhileStatement" ->
         noImperativeLoops_WhileStatement(ctx, path)
    [] r = "no-imperative-loops" /\ t = "DoWhileStatement" ->
         noImperativeLoops_DoWhileStatement(ctx, path)
    [] OTHER -> <<>>

RECURSIVE ReportsOver(_, _, _)
ReportsOver(r, ctx, paths) ==
  IF paths = <<>> THEN <<>>
  ELSE RuleReports(r, ctx, Head(paths)) \o ReportsOver(r, ctx, Tail(paths))

\* the nodes visited so far, in the order of the traversal
VisitedInOrder == SubSeq(PreOrder(ast), 1, Len(PreOrder(ast)) - Len(todo))

\* the options with the test-file exemption of rule r switched off
ExemptionDisabled(opts, r) ==
  [k \in DOMAIN opts \cup {ExemptionOption(r)} |->
     IF k = ExemptionOption(r) THEN FALSE ELSE opts[k]]

\* C8: with the exemption option at its default, prefer-either, prefer-list,
\* no-get-unsafe and no-imperative-loops report nothing in a file whose name
\* is a test file name, whatever the tree is; in a file of any other name
\* they report exactly what they report with the exemption disabled.
C8_TestFilesExempt ==
  ExemptionOption(rule) \notin DOMAIN options =>
    IF TestFileName(filename)
    THEN reports = <<>>
    ELSE reports =
           ReportsOver(rule,
                       [ast |-> ast, options |-> ExemptionDisabled(options, rule),
                        filename |-> filename],
                       VisitedInOrder)

\* a while loop with a for-of loop inside, in a file of the tests directory:
\* the traversal is over and nothing was reported
C8_Witness ==
  /\ todo = <<>>
  /\ rule = "no-imperative-loops"
  /\ options = NoOptions
  /\ filename = "src/tests/a.ts"
  /\ text = "while (busy) { for (const x of xs) { console.log(error) } }"
  /\ reports = <<>>

\* node.range of the node at path: its start and its end in the text
RangeOf(root, path) ==
  <<RangeStart(root, path), RangeStart(root, path) + Len(GetText(NodeAt(root, path)))>>

\* C9: after the fix of prefer-option, of no-get-unsafe (default unsafe
\* methods) or of prefer-flatmap (map then flat) was applied, the second run
\* of the rule on the rewritten text has no report with the message of the
\* fixed report at the location the fix wrote.
C9_FixedLocationNotReportedAgain ==
  pass = 2 =>
    /\ GetText(NodeAt(ast, applied.node)) = applied.fix.text
    /\ \A i \in 1..Len(reports) :
          ~(/\ reports[i].messageId = applied.messageId
            /\ RangeOf(ast, reports[i].node) = RangeOf(ast, applied.node))

\* `option.get().get()` after the fix of the outer call and the second run:
\* the inner call is reported, the rewritten call is not
C9_Witness ==
  /\ pass = 2
  /\ todo = <<>>
  /\ rule = "no-get-unsafe"
  /\ text = "option.get().getOrElse(/* TODO: provide default value */)"
  /\ Len(reports) = 1
  /\ reports[1].node = <<1, 1, 1, 1>>

-----------------------------------------------------------------------------
(* prefer-either: throw statements and function declarations.              *)

FunctionTypes ==
  {"FunctionDeclaration", "FunctionExpression", "ArrowFunctionExpression"}

\* a catch handler is met on the way up from the node at path before any
\* function is
InCatchOfOwnFunction(root, path) ==
  \E a \in AncestorPaths(path) :
     /\ NodeAt(root, a).type = "CatchClause"
     /\ \A b \in AncestorPaths(path) :
          Len(b) > Len(a) => NodeAt(root, b).type \notin FunctionTypes

\* C11: in a file that is not test-exempt, prefer-either leaves a visited
\* throw statement unreported only if a catch handler is among its
\* ancestors below its enclosing function; every other throw statement,
\* one in a function that is declared inside a catch handler among them, is
\* reported exactly once with preferEitherOverThrow.
C11_ThrowSuppressedOnlyInOwnCatch ==
  ~ThrowExempt =>
    \A p \in VisitedPaths :
       NodeAt(ast, p).type = "ThrowStatement" =>
         IF InCatchOfOwnFunction(ast, p)
         THEN ReportsAt(p) = <<>>
         ELSE ReportsAt(p) = <<Report(p, "preferEitherOverThrow", NoData, NoFix)>>

\* the same, for the throw statements that no function separates from a
\* catch handler above them
C11_ThrowOutsideNestedFunction ==
  ~ThrowExempt =>
    \A p \in VisitedPaths :
       /\ NodeAt(ast, p).type = "ThrowStatement"
       /\ InCatchOfOwnFunction(ast, p)
            = (\E a \in AncestorPaths(p) : NodeAt(ast, a).type = "CatchClause")
       => IF InCatchOfOwnFunction(ast, p)
          THEN ReportsAt(p) = <<>>
          ELSE ReportsAt(p) = <<Report(p, "preferEitherOverThrow", NoData, NoFix)>>

\* a throw statement below the node at path that has no catch handler among
\* its ancestors
ThrowsOutsideCatch(root, path) ==
  \E q \in Range(PreOrder(root)) :
     /\ Len(q) > Len(path)
     /\ SubSeq(q, 1, Len(path)) = path
     /\ NodeAt(root, q).type = "ThrowStatement"
     /\ \A a \in AncestorPaths(q) : NodeAt(root, a).type # "CatchClause"


\* C12: in a file that is not test-exempt, prefer-either reports a visited
\* function declaration exactly once with preferEitherReturn, on its name
\* and citing the text of its declared return type, if it has a declared
\* return type, its body has a throw statement that is in no catch handler
\* and the text of the return type does not contain "Either"; a function
\* declaration without a return type, without such a throw, or with a
\* return type naming Either is not reported.
C12_FunctionReturnReported ==
  ~ThrowExempt =>
    \A p \in VisitedPaths :
       NodeAt(ast, p).type = "FunctionDeclaration" =>
         LET f == NodeAt(ast, p)
             id == p \o <<1>>
         IN IF /\ HasReturnType(f)
               /\ ThrowsOutsideCatch(ast, p \o <<Len(f.kids)>>)
               /\ ~includes(GetText(returnType(f)), "Either")
            THEN ReportsAt(id) = <<Report(id, "preferEitherReturn",
                                          [type |-> GetText(returnType(f))], NoFix)>>
            ELSE ReportsAt(id) = <<>>

\* the traversal is over for a function that declares string and throws,
\* which was reported on its name with the type string
C12_Witness ==
  /\ todo = <<>>
  /\ ~ThrowExempt
  /\ text = "function f(): string { throw error }"
  /\ \E i \in 1..Len(reports) :
        reports[i] = Report(<<1, 1>>, "preferEitherReturn", [type |-> "string"], NoFix)

-----------------------------------------------------------------------------
(* rules/prefer-list on array literals, nested, typed and passed to calls. *)

\* the deepest nesting of the array literals of the input files
MaxNesting == 2

RECURSIVE Literals(_)
Literals(k) ==
  IF k = 0 THEN {Array(<<>>), Array(<<Num("1"), Num("2")>>)}
  ELSE Literals(k - 1)
         \cup {Array(<<a, Array(<<Num("3"), Num("4")>>)>>) : a \in Literals(k - 1)}

ListTypes ==
  {TArray(TString), TRefOf("Array", <<TString>>), TRefOf("ReadonlyArray", <<TString>>),
   TRefOf("List", <<TString>>), TString}

LiteralStatements ==
  UNION {
    {Const(Id("m"), a),
     Const(Id("m"), Call(Id("toList"), <<a>>)),
     Const(TypedId("f", TRef("Fn")), Arrow(<<>>, a)),
     ExprStmt(Call(Member(a, "map"), <<Id("f")>>))}
      \cup {Const(TypedId("m", t), a) : t \in ListTypes}
      \cup {Const(Id("m"), Call(Member(Id(o), mth), <<a>>)) :
              o \in {"List", "Task", "xs"}, mth \in {"from", "of", "all", "map"}}
    : a \in Literals(MaxNesting)}

ListPrograms ==
  {Program(imported, <<s>>) : imported \in {<<>>, <<"Task">>}, s \in LiteralStatements}

ListOptions == {NoOptions, [allowArraysInTests |-> FALSE], [allowReadonlyArrays |-> FALSE]}

InitList ==
  InitRun("prefer-list", ListPrograms, ListOptions, {"src/a.ts", "src/a.test.ts"})

NextList ==
  \/ Visit_preferList_TSArrayType
  \/ Visit_preferList_TSTypeReference
  \/ Visit_preferList_ArrayExpression
  \/ SkipNode

SpecList == InitList /\ [][NextList]_vars

\* the file is exempt from prefer-list: a test file, and test files allowed
ListExempt == NotFalse(options, "allowArraysInTests") /\ isInTestFile(filename)

\* the node at path is an argument of a call
IsArgument(root, path) ==
  /\ path # <<>>
  /\ NodeAt(root, ParentPath(path)).type = "CallExpression"
  /\ path[Len(path)] >= 2

\* a call of List.from or List.of
IsListConstructor(c) ==
  /\ c.type = "CallExpression"
  /\ c.kids[1].type = "MemberExpression"
  /\ c.kids[1].kids[1] = Id("List")
  /\ c.kids[1].kids[2] \in {Id("from"), Id("of")}

HasArrayAncestor(root, path) ==
  \E a \in AncestorPaths(path) : NodeAt(root, a).type = "ArrayExpression"

\* C13: prefer-list never reports an empty array literal, never reports a
\* literal that is an argument of List.from, List.of or of any call that
\* isFunctypeCall accepts, and never reports a literal that has an array
\* literal among its ancestors, so only the outermost literal of a nested
\* structure is reported: `const m = [[1, 2], [3, 4]]` gets exactly one
\* preferListLiteral and `const m = List.from([[1, 2], [3, 4]])` gets none.
C13_OnlyOutermostLiteralReported ==
  /\ \A p \in VisitedPaths :
       LET n == NodeAt(ast, p)
           parent == NodeAt(ast, ParentPath(p))
       IN /\ n.type = "ArrayExpression"
          /\ \/ n.kids = <<>>
             \/ /\ IsArgument(ast, p)
                /\ \/ IsListConstructor(parent)
                   \/ isFunctypeCall(parent, getFunctypeImportsLegacy(ast))
             \/ HasArrayAncestor(ast, p)
          => ReportsAt(p) = <<>>
  /\ \A i \in 1..Len(reports) :
       reports[i].messageId = "preferListLiteral" =>
         /\ NodeAt(ast, reports[i].node).type = "ArrayExpression"
         /\ ~HasArrayAncestor(ast, reports[i].node)
  /\ todo = <<>> /\ ~ListExempt /\ text = "const m = [[1, 2], [3, 4]]"
       => reports = <<Report(<<1, 1, 2>>, "preferListLiteral", NoData, NoFix)>>
  /\ todo = <<>> /\ text = "const m = List.from([[1, 2], [3, 4]])"
       => reports = <<>>

\* the traversal is over for the nested literal `[[1, 2], [3, 4]]`, which
\* was reported once, on the outer literal
C13_Witness ==
  /\ todo = <<>>
  /\ text = "const m = [[1, 2], [3, 4]]"
  /\ reports = <<Report(<<1, 1, 2>>, "preferListLiteral", NoData, NoFix)>>

\* a variable declarator whose name carries a type annotation
IsTypedDeclarator(n) == n.type = "VariableDeclarator" /\ n.kids[1].kids # <<>>

\* the array literal at path is dropped by the last suppression of the
\* array-literal visitor: none of the earlier ones applies, and a typed
\* variable declarator or a type annotation is among its ancestors
DroppedForAnnotation(root, path) ==
  LET n == NodeAt(root, path)
      parent == NodeAt(root, ParentPath(path))
  IN /\ n.type = "ArrayExpression"
     /\ n.kids # <<>>
     /\ ~(IsArgument(root, path) /\ IsListConstructor(parent))
     /\ ~isFunctypeCall(parent, getFunctypeImportsLegacy(root))
     /\ ~HasArrayAncestor(root, path)
     /\ \E a \in AncestorPaths(path) :
          IsTypedDeclarator(NodeAt(root, a)) \/ NodeAt(root, a).type = "TSTypeAnnotation"

\* a preferList report was made inside the type annotation of a variable
\* declarator that encloses the node at path
TypeOfDeclarationReported(root, path) ==
  \E d \in AncestorPaths(path), i \in 1..Len(reports) :
     /\ IsTypedDeclarator(NodeAt(root, d))
     /\ reports[i].messageId = "preferList"
     /\ Len(reports[i].node) > Len(d)
     /\ SubSeq(reports[i].node, 1, Len(d) + 1) = d \o <<1>>

\* C20: in a file that is not test-exempt, whenever prefer-list drops a
\* non-empty array literal because a typed variable declarator or a type
\* annotation encloses it, the type annotation of that declaration is
\* itself reported with preferList by a visitor of T[], Array<T> or
\* ReadonlyArray<T>.
C20_DroppedLiteralHasTypeReport ==
  todo = <<>> /\ ~ListExempt =>
    \A p \in VisitedPaths :
       DroppedForAnnotation(ast, p) => TypeOfDeclarationReported(ast, p)

\* the same, for the declarations whose annotation is an array type
C20_ArrayTypedDeclarations ==
  todo = <<>> /\ ~ListExempt =>
    \A p \in VisitedPaths :
       /\ DroppedForAnnotation(ast, p)
       /\ \E d \in AncestorPaths(p) :
             /\ IsTypedDeclarator(NodeAt(ast, d))
             /\ LET t == NodeAt(ast, d).kids[1].kids[1].kids[1]
                IN \/ t.type = "TSArrayType"
                   \/ t.type = "TSTypeReference" /\ t.name \in {"Array", "ReadonlyArray"}
       => TypeOfDeclarationReported(ast, p)

-----------------------------------------------------------------------------
(* prefer-flatmap: the rewrite of X.map(cb).flat().                        *)

\* the text of a call from behind the parenthesis that opens its arguments
AfterOpenParen(call) ==
  LET before == Len(GetText(callee(call)))
                  + (IF startsWith(call.name, "/*") THEN 0 ELSE Len(call.name)) + 1
  IN SubSeq(GetText(call), before + 1, Len(GetText(call)))

\* X.map(cb) with the .map( of this very call replaced by .flatMap(
FlatMapOfMapCall(mapCall) ==
  GetText(object(callee(mapCall))) \o ".flatMap(" \o AfterOpenParen(mapCall)

\* the step applies the fix of a preferFlatMapOverMapFlat report
FixesMapFlat ==
  pass = 1 /\ pass' = 2 /\ applied'.messageId = "preferFlatMapOverMapFlat"

\* C14: the fix of prefer-flatmap for X.map(cb).flat() replaces the whole
\* .flat() call by the text of X.map(cb) in which the .map( of the map call
\* directly before .flat() is replaced by .flatMap(: the text of X and of
\* cb are as they were and .flat() is gone, for every receiver X.
C14_FixRewritesTheLastMap ==
  [][FixesMapFlat =>
       LET flat == NodeAt(ast, applied'.node)
           mapCall == object(callee(flat))
           start == RangeStart(ast, applied'.node)
           len == Len(GetText(flat))
       IN /\ isMapFollowedByFlat(flat)
          /\ text' = SubSeq(text, 1, start)
                       \o FlatMapOfMapCall(mapCall)
                       \o SubSeq(text, start + len + 1, Len(text))]_vars

\* the same, for the receivers X whose text has no .map( of its own
C14_ReceiverWithoutMap ==
  [][/\ FixesMapFlat
     /\ LET X == GetText(object(callee(object(callee(NodeAt(ast, applied'.node))))))
        IN replaceFirstMapCall(X) = X
     => LET flat == NodeAt(ast, applied'.node)
            mapCall == object(callee(flat))
            start == RangeStart(ast, applied'.node)
            len == Len(GetText(flat))
        IN /\ isMapFollowedByFlat(flat)
           /\ text' = SubSeq(text, 1, start)
                        \o FlatMapOfMapCall(mapCall)
                        \o SubSeq(text, start + len + 1, Len(text))]_vars

-----------------------------------------------------------------------------
(* prefer-fold: when the fix is offered.                                   *)

DirectChecks ==
  {"isSome", "isNone", "isEmpty", "isRight", "isLeft", "isSuccess", "isFailure"}

\* the condition is itself a call of one of the seven checks on a member
\* expression
IsDirectCheck(t) ==
  /\ t.type = "CallExpression"
  /\ t.kids[1].type = "MemberExpression"
  /\ t.kids[1].kids[2].type = "Identifier"
  /\ t.kids[1].kids[2].name \in DirectChecks

\* the condition is recognized as a comparison with null or undefined
IsNullComparison(t) ==
  /\ t.type = "BinaryExpression"
  /\ \E i \in 1..2 : t.kids[i] \in {NullLit, Id("undefined")}
  /\ isMonadicCheck(t).isMonadic

\* C15: the fix callback of a preferFold or preferFoldTernary report
\* returns a replacement, which is never empty, only when the condition is
\* itself a call of isSome, isNone, isEmpty, isRight, isLeft, isSuccess or
\* isFailure on a member expression; for a condition of any other shape,
\* the comparisons with null and undefined among them, it returns null, and
\* the violation is reported all the same.
C15_FixOnlyForDirectChecks ==
  /\ \A i \in 1..Len(reports) :
       LET r == reports[i]
           t == test(NodeAt(ast, r.node))
       IN /\ r.messageId \in {"preferFold", "preferFoldTernary"}
          /\ r.fix.kind \in {"replaceText", "null"}
          /\ r.fix.kind = "replaceText" => IsDirectCheck(t) /\ r.fix.text # ""
          /\ ~IsDirectCheck(t) => r.fix = NullFix
  /\ \A p \in VisitedPaths :
       LET n == NodeAt(ast, p) IN
       /\ n.type = "ConditionalExpression" /\ IsNullComparison(test(n))
            => ReportsAt(p) = <<Report(p, "preferFoldTernary", [type |-> "Option"], NullFix)>>
       /\ (/\ n.type = "IfStatement"
           /\ IsNullComparison(test(n))
           /\ Len(p) = 1
           /\ ChainComplexity(n) >= minComplexity(options))
            => ReportsAt(p) = <<Report(p, "preferFold", [type |-> "Option"], NullFix)>>

\* the traversal is over for a ternary on a comparison with null, reported
\* without a fix, and for a ternary on opt.isSome(), reported with one
C15_Witness ==
  /\ todo = <<>>
  /\ \/ /\ text = "const r = x === null ? 1 : 0"
        /\ reports = <<Report(<<1, 1, 2>>, "preferFoldTernary", [type |-> "Option"], NullFix)>>
     \/ /\ text = "const r = opt.isSome() ? 1 : 0"
        /\ reports = <<Report(<<1, 1, 2>>, "preferFoldTernary", [type |-> "Option"],
                              ReplaceText("opt.fold(() => 0, (value) => 1)"))>>

-----------------------------------------------------------------------------
(* prefer-do-notation: guards of nested property access.                   *)

IsAnd(n) == n.type = "LogicalExpression" /\ n.name = "&&"

\* the && expressions of the chain that starts at path: the node and, as
\* long as they are && expressions, the left operands below it
GuardChainPaths(root, path) ==
  {q \in {path \o [i \in 1..k |-> 1] : k \in 0..8} :
     \A j \in Len(path)..Len(q) :
        LET a == SubSeq(q, 1, j)
        IN /\ \A i \in 1..Len(a) :
                \* the path exists in the tree
                a[i] <= Len(NodeAt(root, SubSeq(a, 1, i - 1)).kids)
           /\ IsAnd(NodeAt(root, a))}

\* the links of the chain whose right-hand side is a member expression or
\* an && expression
GuardLinks(root, path) ==
  {q \in GuardChainPaths(root, path) :
     LET right == NodeAt(root, q).kids[2]
     IN right.type = "MemberExpression" \/ IsAnd(right)}

\* the text has a dotted chain of three words: w.w.w
HasDottedChain(s) ==
  \E a, b \in 2..(Len(s) - 1) :
     /\ a + 1 < b
     /\ CharAt(s, a) = "." /\ CharAt(s, b) = "."
     /\ IsWordChar(CharAt(s, a - 1))
     /\ \A i \in (a + 1)..(b - 1) : IsWordChar(CharAt(s, i))
     /\ IsWordChar(CharAt(s, b + 1))

NestedCheckReportsAt(path) ==
  SelectSeq(ReportsAt(path), LAMBDA r : r.messageId = "preferDoForNestedChecks")

\* C16: prefer-do-notation reports a visited && expression with
\* preferDoForNestedChecks, once, if at least 2 links of its && chain,
\* walking left, have a member expression or an && expression as their
\* right-hand side and its text has a dotted chain of depth 3 or more, and
\* not at all otherwise; every && expression of a longer chain is judged on
\* its own, so `user && user.address && user.address.city &&
\* user.address.city.name` gets exactly two reports.
C16_NestedGuardsReported ==
  /\ \A p \in VisitedPaths :
       LET n == NodeAt(ast, p) IN
       n.type = "LogicalExpression" =>
         IF /\ IsAnd(n)
            /\ Cardinality(GuardLinks(ast, p)) >= 2
            /\ HasDottedChain(GetText(n))
         THEN Len(ReportsAt(p)) = 1 /\ Len(NestedCheckReportsAt(p)) = 1
         ELSE ReportsAt(p) = <<>>
  /\ (/\ todo = <<>>
      /\ text = "const city = user && user.address && user.address.city && user.address.city.name")
       => /\ Len(reports) = 2
          /\ \A i \in 1..2 : reports[i].messageId = "preferDoForNestedChecks"

\* the traversal is over for the chain of four guards, which was reported
\* on its two outer && expressions
C16_Witness ==
  /\ todo = <<>>
  /\ text = "const city = user && user.address && user.address.city && user.address.city.name"
  /\ reports = <<Report(<<1, 1, 2>>, "preferDoForNestedChecks", NoData, NoFix),
                 Report(<<1, 1, 2, 1>>, "preferDoForNestedChecks", NoData, NoFix)>>

\* C17: prefer-do-notation never reports with preferDoForNestedChecks an
\* && expression that is nested, at any depth, in a call of an imported Do
\* or DoAsync.
C17_NoNestedCheckReportInsideDo ==
  \A i \in 1..Len(reports) :
     reports[i].messageId = "preferDoForNestedChecks" =>
       ~isInsideDoNotation(ast, reports[i].node, getFunctypeImports(ast))

-----------------------------------------------------------------------------
(* rules/prefer-map                                                        *)

IsFunction(n) == n.type \in {"ArrowFunctionExpression", "FunctionExpression"}

isForEachToMapSafe(node) ==
  /\ node.type = "CallExpression"
  /\ callee(node).type = "MemberExpression"
  /\ NameOf(property(callee(node))) = "forEach"
  /\ Len(arguments(node)) >= 1
  /\ IsFunction(arguments(node)[1])
  /\ FunctionBody(arguments(node)[1]).type = "MemberExpression"

\* a check that takes any call statement for a push
isTransformationLoop_AnyCall(node) ==
  LET loopBody == node.kids[Len(node.kids)]
  IN /\ loopBody.type = "BlockStatement"
     /\ \E i \in 1..Len(loopBody.kids) :
           /\ loopBody.kids[i].type = "ExpressionStatement"
           /\ loopBody.kids[i].kids[1].type = "CallExpression"

\* node is a loop; its body is its last child
isTransformationLoop(node) ==
  LET loopBody == node.kids[Len(node.kids)]
  IN /\ loopBody.type = "BlockStatement"
     /\ \E i \in 1..Len(loopBody.kids) :
           LET stmt == loopBody.kids[i]
           IN /\ stmt.type = "ExpressionStatement"
              /\ stmt.kids[1].type = "CallExpression"
              /\ callee(stmt.kids[1]).type = "MemberExpression"
              /\ NameOf(property(callee(stmt.kids[1]))) = "push"

isSimplePropertyAccess(node) ==
  /\ node.type = "CallExpression"
  /\ callee(node).type = "MemberExpression"
  /\ NameOf(property(callee(node))) = "forEach"
  /\ Len(arguments(node)) >= 1
  /\ IsFunction(arguments(node)[1])
  /\ FunctionBody(arguments(node)[1]).type = "MemberExpression"

\* text.replace(/\.forEach\s*\(/g, ".map("): every match, left to right
RECURSIVE replaceForEachCalls(_)
replaceForEachCalls(s) ==
  LET hits == {i \in 1..Len(s) :
                 OccursAt(s, ".forEach", i) /\ OccursAt(s, "(", SkipSpaces(s, i + 8))}
      at == CHOOSE i \in hits : \A j \in hits : i <= j
  IN IF hits = {} THEN s
     ELSE SubSeq(s, 1, at - 1) \o ".map("
            \o replaceForEachCalls(SubSeq(s, SkipSpaces(s, at + 8) + 1, Len(s)))

preferMap_Loop(ctx, path, collection) ==
  LET node == NodeAt(ctx.ast, path)
      checkForLoops == NotFalse(ctx.options, "checkForLoops")
  IN IF ~checkForLoops THEN <<>>
     ELSE IF isTransformationLoop(node)
     THEN <<Report(path, "preferMapOverLoop", [collection |-> collection], NoFix)>>
     ELSE <<>>

preferMap_ForStatement(ctx, path) == preferMap_Loop(ctx, path, "array")
preferMap_ForInStatement(ctx, path) == preferMap_Loop(ctx, path, "object")
preferMap_ForOfStatement(ctx, path) == preferMap_Loop(ctx, path, "iterable")

\* the call is inside the arguments or the receiver of a .forEach() or
\* .for() call
InsideIteration(root, path) ==
  \E a \in AncestorPaths(path) :
     LET parent == NodeAt(root, a)
     IN /\ parent.type = "CallExpression"
        /\ callee(parent).type = "MemberExpression"
        /\ NameOf(property(callee(parent))) \in {"forEach", "for"}

preferMap_CallExpression(ctx, path) ==
  LET node == NodeAt(ctx.ast, path)
      checkArrayMethods == NotFalse(ctx.options, "checkArrayMethods")
      isMember == callee(node).type = "MemberExpression"
      forEachReports ==
        IF /\ isMember
           /\ NameOf(property(callee(node))) = "forEach"
           /\ isSimplePropertyAccess(node)
        THEN <<Report(path, "preferMapChain", NoData,
                      IF isForEachToMapSafe(node)
                      THEN ReplaceText(replaceForEachCalls(GetText(node)))
                      ELSE NullFix)>>
        ELSE <<>>
      pushReports ==
        IF /\ isMember
           /\ NameOf(property(callee(node))) = "push"
           /\ InsideIteration(ctx.ast, path)
        THEN <<Report(path, "preferMapOverPush", NoData, NoFix)>>
        ELSE <<>>
  IN IF ~checkArrayMethods THEN <<>> ELSE forEachReports \o pushReports

Visit_preferMap_ForStatement ==
  /\ rule = "prefer-map"
  /\ Visiting("ForStatement")
  /\ reports' = reports \o preferMap_ForStatement(Context, Head(todo))
  /\ Advance

Visit_preferMap_ForInStatement ==
  /\ rule = "prefer-map"
  /\ Visiting("ForInStatement")
  /\ reports' = reports \o preferMap_ForInStatement(Context, Head(todo))
  /\ Advance

Visit_preferMap_ForOfStatement ==
  /\ rule = "prefer-map"
  /\ Visiting("ForOfStatement")
  /\ reports' = reports \o preferMap_ForOfStatement(Context, Head(todo))
  /\ Advance

Visit_preferMap_CallExpression ==
  /\ rule = "prefer-map"
  /\ Visiting("CallExpression")
  /\ reports' = reports \o preferMap_CallExpression(Context, Head(todo))
  /\ Advance

\* the longest loop body of the input files
MaxLoopStmts == 2

PushTo(out, e) == ExprStmt(Call(Member(Id(out), "push"), <<e>>))

LoopBodyStatements ==
  {Log, PushTo("out", Id("x")), If(Id("ok"), Block(<<PushTo("out", Id("x"))>>))}

LoopBodies ==
  {Block(b) : b \in UNION {[1..k -> LoopBodyStatements] : k \in 0..MaxLoopStmts}}
    \cup {PushTo("out", Id("x")),
          Block(<<ExprStmt(Call(Computed(Id("out"), Str("push")), <<Id("x")>>))>>),
          Block(<<ExprStmt(Call(Id("push"), <<Id("x")>>))>>),
          Block(<<ExprStmt(Member(Id("out"), "push"))>>)}

MapLoops ==
  UNION {{Node("ForStatement", "",
               <<Let(Id("i"), Num("0")), Binary(Id("i"), "<", Id("n")),
                 Update(Id("i"), "++"), b>>),
          Node("ForInStatement", "", <<Declare("const", Id("x")), Id("obj"), b>>),
          Node("ForOfStatement", "", <<Declare("const", Id("x")), Id("xs"), b>>)}
         : b \in LoopBodies}

ForEachCallbacks ==
  {<<Arrow(<<Id("x")>>, Member(Id("x"), "name"))>>,
   <<Arrow(<<Id("x")>>, Member(Member(Id("x"), "user"), "name"))>>,
   <<Arrow(<<Id("x")>>, Member(Id("x"), "name")), Id("self")>>,
   <<Arrow(<<Id("x")>>, Call(Id("log"), <<Member(Id("x"), "name")>>))>>,
   <<Arrow(<<Id("x")>>, Block(<<PushTo("out", Member(Id("x"), "name"))>>))>>,
   <<Arrow(<<Id("x")>>, Block(<<Return(Member(Id("x"), "name"))>>))>>,
   <<Arrow(<<Id("x")>>,
           Member(Call(Member(Member(Id("x"), "kids"), "forEach"), <<Id("g")>>), "length"))>>,
   <<Id("f")>>,
   <<>>}

ForEachReceivers ==
  {Id("items"), Member(Id("state"), "items"),
   Call(Member(Id("items"), "filter"), <<Id("p")>>),
   Call(Member(Id("items"), "forEach"), <<Id("f")>>)}

MapCalls ==
  {Node("CallExpression", ws, <<Member(r, mth)>> \o cb) :
     ws \in {"", " "}, r \in ForEachReceivers, mth \in {"forEach", "map"},
     cb \in ForEachCallbacks}
    \cup {Call(Computed(Id("items"), Str("forEach")),
               <<Arrow(<<Id("x")>>, Member(Id("x"), "name"))>>),
          Call(Id("forEach"), <<Arrow(<<Id("x")>>, Member(Id("x"), "name"))>>)}

MapPrograms ==
  {Program(<<>>, <<s>>) : s \in MapLoops}
    \cup {Program(<<>>, <<ExprStmt(c)>>) : c \in MapCalls}

MapOptions == {NoOptions, [checkForLoops |-> FALSE], [checkArrayMethods |-> FALSE]}

InitMap == InitRun("prefer-map", MapPrograms, MapOptions, {"src/a.ts"})

NextMap ==
  \/ Visit_preferMap_ForStatement
  \/ Visit_preferMap_ForInStatement
  \/ Visit_preferMap_ForOfStatement
  \/ Visit_preferMap_CallExpression
  \/ SkipNode
  \/ ApplyFix

SpecMap == InitMap /\ [][NextMap]_vars

-----------------------------------------------------------------------------
(* prefer-map: loops that push, and forEach calls that read a property.    *)

LoopLabel(type) ==
  CASE type = "ForStatement" -> "array"
    [] type = "ForInStatement" -> "object"
    [] type = "ForOfStatement" -> "iterable"

\* a call of the member `name` of some object: obj.name(...)
IsCallOfMember(e, name) ==
  /\ e.type = "CallExpression"
  /\ e.kids[1].type = "MemberExpression"
  /\ e.kids[1].name = "."
  /\ e.kids[1].kids[2] = Id(name)

\* the body of the loop is a block with a push call among its statements
HasTopLevelPush(loop) ==
  LET b == loop.kids[Len(loop.kids)]
  IN /\ b.type = "BlockStatement"
     /\ \E i \in 1..Len(b.kids) :
           /\ b.kids[i].type = "ExpressionStatement"
           /\ IsCallOfMember(b.kids[i].kids[1], "push")

\* C18: with checkForLoops enabled, prefer-map reports a visited for,
\* for-in or for-of statement exactly once with preferMapOverLoop if its
\* body is a block statement with at least one top-level expression
\* statement that calls a member named push; the collection is array for
\* for, object for for-in and iterable for for-of; a loop without such a
\* push is not reported, and no loop is when checkForLoops is false.
C18_LoopsThatPushReported ==
  \A p \in VisitedPaths :
     LET n == NodeAt(ast, p) IN
     n.type \in {"ForStatement", "ForInStatement", "ForOfStatement"} =>
       IF NotFalse(options, "checkForLoops") /\ HasTopLevelPush(n)
       THEN ReportsAt(p) = <<Report(p, "preferMapOverLoop",
                                    [collection |-> LoopLabel(n.type)], NoFix)>>
       ELSE ReportsAt(p) = <<>>

\* the traversal is over for a for-of loop that pushes, reported as a loop
\* over an iterable
C18_Witness ==
  /\ todo = <<>>
  /\ text = "for (const x of xs) { console.log(error); out.push(x) }"
  /\ reports = <<Report(<<1>>, "preferMapOverLoop", [collection |-> "iterable"], NoFix)>>

\* the callback of the call is an arrow or function expression whose body
\* is a member expression
CallbackReadsProperty(call) ==
  /\ Len(call.kids) >= 2
  /\ call.kids[2].type \in {"ArrowFunctionExpression", "FunctionExpression"}
  /\ call.kids[2].kids[Len(call.kids[2].kids)].type = "MemberExpression"

MapChainReportsAt(path) ==
  SelectSeq(ReportsAt(path), LAMBDA r : r.messageId = "preferMapChain")

\* R.forEach(args) with the .forEach( of this very call replaced by .map(
MapOfForEachCall(call) ==
  GetText(object(callee(call))) \o ".map(" \o AfterOpenParen(call)

\* C19: with checkArrayMethods enabled, prefer-map reports a visited
\* .forEach(cb) call with preferMapChain if and only if cb is an arrow or
\* function expression whose body is a member expression (not a call, not a
\* block); a report always carries a fix, whose text is the text of the
\* call with its .forEach( replaced by .map( and every other character,
\* those of the receiver and of the arguments among them, as it was.
C19_ForEachFixKeepsTheRest ==
  /\ \A p \in VisitedPaths :
       LET n == NodeAt(ast, p) IN
       (n.type = "CallExpression" /\ NotFalse(options, "checkArrayMethods")) =>
         Len(MapChainReportsAt(p)) =
           (IF IsCallOfMember(n, "forEach") /\ CallbackReadsProperty(n) THEN 1 ELSE 0)
  /\ \A i \in 1..Len(reports) :
       reports[i].messageId = "preferMapChain" =>
         reports[i].fix = ReplaceText(MapOfForEachCall(NodeAt(ast, reports[i].node)))

\* the same, for the calls whose receiver and arguments have no .forEach(
\* of their own
C19_SingleForEach ==
  /\ \A p \in VisitedPaths :
       LET n == NodeAt(ast, p) IN
       (n.type = "CallExpression" /\ NotFalse(options, "checkArrayMethods")) =>
         Len(MapChainReportsAt(p)) =
           (IF IsCallOfMember(n, "forEach") /\ CallbackReadsProperty(n) THEN 1 ELSE 0)
  /\ \A i \in 1..Len(reports) :
       LET call == NodeAt(ast, reports[i].node) IN
       /\ reports[i].messageId = "preferMapChain"
       /\ replaceForEachCalls(GetText(object(callee(call)))) = GetText(object(callee(call)))
       /\ replaceForEachCalls(AfterOpenParen(call)) = AfterOpenParen(call)
       => reports[i].fix = ReplaceText(MapOfForEachCall(call))

-----------------------------------------------------------------------------
(* prefer-flatmap: chained maps and maps that return arrays.               *)

\* a call R.map(...)
IsMapCall(n) ==
  /\ n.type = "CallExpression"
  /\ n.kids[1].type = "MemberExpression"
  /\ n.kids[1].kids[2] = Id("map")

\* the call at path is X.map(cb1).map(cb2) and cb1 returns an array
IsChainedOnArrayMap(root, path) ==
  LET outer == NodeAt(root, path)
      inner == outer.kids[1].kids[1]
  IN /\ IsMapCall(outer)
     /\ IsMapCall(inner)
     /\ Len(inner.kids) >= 2
     /\ returnsArray(inner.kids[2])

\* the call at path is the receiver of a .map() call
FeedsMap(root, path) ==
  /\ Len(path) >= 2
  /\ path[Len(path)] = 1 /\ path[Len(path) - 1] = 1
  /\ NodeAt(root, ParentPath(path)).type = "MemberExpression"
  /\ IsMapCall(NodeAt(root, ParentPath(ParentPath(path))))

\* C21: for a visited call X.map(cb1).map(cb2) whose cb1 satisfies
\* returnsArray, the pair gets exactly one report, preferFlatMapChain on the
\* inner (first) map call; no report of the pair is anchored on the outer
\* map call (it has one only as the inner call of a further pair), and
\* neither call has a preferFlatMapNested, whatever cb2 returns.
C21_ChainReportedOnInnerMap ==
  \A p \in VisitedPaths :
     IsChainedOnArrayMap(ast, p) =>
       LET inner == p \o <<1, 1>> IN
       /\ ReportsAt(inner) = <<Report(inner, "preferFlatMapChain", NoData, NoFix)>>
       /\ IF FeedsMap(ast, p) /\ IsChainedOnArrayMap(ast, ParentPath(ParentPath(p)))
          THEN ReportsAt(p) = <<Report(p, "preferFlatMapChain", NoData, NoFix)>>
          ELSE ReportsAt(p) = <<>>

\* the traversal is over for two chained maps whose first callback and
\* second callback both return arrays: one report, on the first map
C21_Witness ==
  /\ todo = <<>>
  /\ pass = 1
  /\ text = "const r = items.map(x => [x]).map(x => [x])"
  /\ reports = <<Report(<<1, 1, 2, 1, 1>>, "preferFlatMapChain", NoData, NoFix)>>


\* the call at path is the receiver of a called .flat: M.flat(...)
FollowedByFlatCall(root, path) ==
  /\ Len(path) >= 2
  /\ path[Len(path)] = 1 /\ path[Len(path) - 1] = 1
  /\ NodeAt(root, ParentPath(path)).type = "MemberExpression"
  /\ NodeAt(root, ParentPath(path)).kids[2] = Id("flat")
  /\ NodeAt(root, ParentPath(ParentPath(path))).type = "CallExpression"

\* the first argument of the map call is a function that returns an array
MapsToArrays(call) ==
  /\ Len(call.kids) >= 2
  /\ call.kids[2].type \in {"ArrowFunctionExpression", "FunctionExpression"}
  /\ returnsArray(call.kids[2])

NestedReportsAt(path) ==
  {r \in Range(ReportsAt(path)) : r.messageId = "preferFlatMapNested"}

\* C22: with checkNestedMaps enabled, a visited call M of .map(cb) has a
\* preferFlatMapNested report, without a fix, exactly when cb is an arrow
\* or function expression that returns an array and M is not followed by a
\* .flat() call, M's receiver is not a .map(...) call, and M is not the
\* receiver of an outer .map(...) call.
C22_NestedReportedIffNoExclusion ==
  \A p \in VisitedPaths :
     (NotFalse(options, "checkNestedMaps") /\ IsMapCall(NodeAt(ast, p))) =>
       /\ \A r \in NestedReportsAt(p) : r.fix = NoFix
       /\ (NestedReportsAt(p) # {})
            <=> /\ MapsToArrays(NodeAt(ast, p))
                /\ ~FollowedByFlatCall(ast, p)
                /\ ~IsMapCall(NodeAt(ast, p).kids[1].kids[1])
                /\ ~FeedsMap(ast, p)

\* the map call is the object of a member expression that is called, or it
\* is not the object of a member expression at all
MemberIsCalled(root, path) ==
  \/ path = <<>>
  \/ NodeAt(root, ParentPath(path)).type # "MemberExpression"
  \/ /\ Len(path) >= 2
     /\ path[Len(path) - 1] = 1
     /\ NodeAt(root, ParentPath(ParentPath(path))).type = "CallExpression"

\* the same statement for the map calls whose member expression is called
C22_CalledMembers ==
  \A p \in VisitedPaths :
     (/\ NotFalse(options, "checkNestedMaps")
      /\ IsMapCall(NodeAt(ast, p))
      /\ MemberIsCalled(ast, p)) =>
       /\ \A r \in NestedReportsAt(p) : r.fix = NoFix
       /\ (NestedReportsAt(p) # {})
            <=> /\ MapsToArrays(NodeAt(ast, p))
                /\ ~FollowedByFlatCall(ast, p)
                /\ ~IsMapCall(NodeAt(ast, p).kids[1].kids[1])
                /\ ~FeedsMap(ast, p)

-----------------------------------------------------------------------------
(* prefer-fold: the text of the fix.                                       *)

\* the text obj.fold(a, b)
FoldCall(obj, a, b) == obj \o ".fold(" \o a \o ", " \o b \o ")"

\* the test of the node is a call obj.m() of one of the given predicates
TestIs(n, names) ==
  /\ n.kids[1].type = "CallExpression"
  /\ n.kids[1].kids[1].type = "MemberExpression"
  /\ n.kids[1].kids[1].kids[2].type = "Identifier"
  /\ n.kids[1].kids[1].kids[2].name \in names

\* the text a handler is built from: of a ternary the operand, of an if
\* statement what extractBodyForFold takes from the branch
HandlerBody(n, i) ==
  IF n.type = "ConditionalExpression" THEN GetText(n.kids[i])
  ELSE extractBodyForFold(Context, n.kids[i])

\* C23: every replacement obj.fold(a, b) of an if statement or a ternary
\* has as a the handler of the branch taken when the container is empty,
\* Left or Failure and as b the handler of the branch taken when it holds a
\* value: for isSome, isRight, isSuccess a is built from the else branch
\* and b from the then branch; for isNone, isEmpty, isLeft, isFailure a is
\* built from the then branch and b from the else branch.
C23_FoldArgumentOrder ==
  \A p \in VisitedPaths : \A r \in Range(ReportsAt(p)) :
     r.fix.kind = "replaceText" =>
       LET n == NodeAt(ast, p)
           obj == GetText(n.kids[1].kids[1].kids[1])
       IN \/ /\ TestIs(n, {"isSome", "isRight", "isSuccess"})
             /\ r.fix.text = FoldCall(obj, "() => " \o HandlerBody(n, 3),
                                      "(value) => " \o HandlerBody(n, 2))
          \/ /\ TestIs(n, {"isNone", "isEmpty", "isLeft", "isFailure"})
             /\ r.fix.text = FoldCall(obj, "() => " \o HandlerBody(n, 2),
                                      "() => " \o HandlerBody(n, 3))

\* the traversal is over for an if / else on a positive predicate whose
\* fix puts the else branch first
C23_Witness ==
  /\ todo = <<>>
  /\ text = "if (opt.isSome()) { return 1 } else { return 0 }"
  /\ \E i \in 1..Len(reports) :
        reports[i].fix = ReplaceText("opt.fold(() => 0, (value) => 1)")


\* the one statement of a branch: the branch itself, or the only statement
\* of a block
OnlyStatement(branch) ==
  IF branch.type = "BlockStatement" /\ Len(branch.kids) = 1
  THEN branch.kids[1] ELSE branch

\* the branch consists of exactly one return statement, with an argument
IsSingleReturn(branch) ==
  /\ OnlyStatement(branch).type = "ReturnStatement"
  /\ OnlyStatement(branch).kids # <<>>

ReturnedOf(branch) == OnlyStatement(branch).kids[1]

\* the if statement has an else that is no else-if, and both branches
\* consist of exactly one return statement
HasTwoReturns(n) ==
  /\ Len(n.kids) = 3
  /\ n.kids[3].type # "IfStatement"
  /\ IsSingleReturn(n.kids[2])
  /\ IsSingleReturn(n.kids[3])

\* the report of an if statement has a replacement only for two single
\* returns, the handlers being the texts of the returned expressions
FixShapeAt(p) ==
  \A r \in Range(ReportsAt(p)) :
     LET n == NodeAt(ast, p) IN
     r.messageId = "preferFold" =>
       IF r.fix.kind = "replaceText"
       THEN /\ HasTwoReturns(n)
            /\ LET thenText == GetText(ReturnedOf(n.kids[2]))
                   elseText == GetText(ReturnedOf(n.kids[3]))
                   obj == GetText(n.kids[1].kids[1].kids[1])
               IN r.fix.text \in
                    {FoldCall(obj, "() => " \o elseText, "(value) => " \o thenText),
                     FoldCall(obj, "() => " \o thenText, "() => " \o elseText)}
       ELSE r.fix = NullFix

\* C24: the fix of a reported if statement is a replacement only when the
\* if has an else that is not an else-if and each branch consists of
\* exactly one return statement, and then each handler body is the text of
\* the returned expression; for every other shape of the branches the
\* statement is reported with the null fix.
C24_FixOnlyForTwoSingleReturns ==
  \A p \in VisitedPaths :
     NodeAt(ast, p).type = "IfStatement" => FixShapeAt(p)

\* both branches of the if statement are blocks, and no return is bare
BlockBranches(n) ==
  /\ n.kids[2].type = "BlockStatement"
  /\ Len(n.kids) = 3 =>
       /\ n.kids[3].type \in {"BlockStatement", "IfStatement"}
       /\ \A i \in 1..Len(n.kids[3].kids) :
             n.kids[3].kids[i].type = "ReturnStatement" => n.kids[3].kids[i].kids # <<>>

\* the same statement for the if statements whose branches are blocks
\* whose returns have an argument
C24_BlockBranches ==
  \A p \in VisitedPaths :
     (NodeAt(ast, p).type = "IfStatement" /\ BlockBranches(NodeAt(ast, p)))
       => FixShapeAt(p)


\* the if statement at path is the else-if link of an if statement
IsElseIfLink(root, path) ==
  /\ path # <<>>
  /\ path[Len(path)] = 3
  /\ NodeAt(root, path).type = "IfStatement"
  /\ NodeAt(root, ParentPath(path)).type = "IfStatement"

\* the paths of the else-if links below the if statement at path
RECURSIVE LinksBelow(_, _)
LinksBelow(root, path) ==
  LET n == NodeAt(root, path)
  IN IF Len(n.kids) = 3 /\ n.kids[3].type = "IfStatement"
     THEN {path \o <<3>>} \cup LinksBelow(root, path \o <<3>>)
     ELSE {}

\* C25: an else-if link is never reported on its own: no report is
\* anchored on it, so an if / else-if / else chain has at most one
\* preferFold report, and that report is anchored on the head of the chain.
C25_OneReportAtHeadOfChain ==
  \A p \in VisitedPaths :
     NodeAt(ast, p).type = "IfStatement" =>
       /\ IsElseIfLink(ast, p) => ReportsAt(p) = <<>>
       /\ ~IsElseIfLink(ast, p) =>
            /\ Len(ReportsAt(p)) <= 1
            /\ \A r \in Range(ReportsAt(p)) : r.messageId = "preferFold"
            /\ \A q \in LinksBelow(ast, p) : ReportsAt(q) = <<>>

\* the traversal is over for a chain whose head and link both test an
\* Option: one report, on the head
C25_Witness ==
  /\ todo = <<>>
  /\ text = "if (opt.isSome()) { return 1 } else if (opt.isNone()) { return 1 } else { return 0 }"
  /\ options = NoOptions
  /\ Len(reports) = 1
  /\ reports[1].node = <<1>>
  /\ reports[1].messageId = "preferFold"


\* the text contains .m() for one of the names
ContainsCallOf(txt, names) ==
  \E mth \in names : \E i \in 1..Len(txt) : OccursAt(txt, "." \o mth \o "()", i)

\* a comparison by ===, !==, == or != with null or undefined on a side
ComparesWithNothing(n) ==
  /\ n.type = "BinaryExpression"
  /\ n.name \in {"===", "!==", "==", "!="}
  /\ \E i \in 1..2 : n.kids[i] \in {NullLit, Id("undefined")}

\* the label of a condition, "" for a condition that is not monadic
LabelOf(cond) ==
  IF ContainsCallOf(GetText(cond), {"isSome", "isNone", "isEmpty", "isDefined"})
  THEN "Option"
  ELSE IF ContainsCallOf(GetText(cond), {"isLeft", "isRight"}) THEN "Either"
  ELSE IF ContainsCallOf(GetText(cond), {"isSuccess", "isFailure"}) THEN "Result"
  ELSE IF ComparesWithNothing(cond) THEN "Option"
  ELSE ""

\* what the two visitors have reported for the node at p follows the label
ClassifiedAt(p, comparison(_)) ==
  LET n == NodeAt(ast, p)
      cond == n.kids[1]
      lbl == IF LabelOf(cond) = "Option" /\ ~ContainsCallOf(GetText(cond),
                   {"isSome", "isNone", "isEmpty", "isDefined"}) /\ ~comparison(cond)
             THEN "" ELSE LabelOf(cond)
  IN /\ \A r \in Range(ReportsAt(p)) : lbl # "" /\ r.data = [type |-> lbl]
     /\ n.type = "ConditionalExpression" => (ReportsAt(p) # <<>> <=> lbl # "")
     /\ (n.type = "IfStatement" /\ Len(p) = 1 /\ Len(n.kids) = 3 /\ options = NoOptions)
          => (ReportsAt(p) # <<>> <=> lbl # "")

AnyComparison(n) == TRUE
NotLooseNull(n) == ~(n.name \in {"==", "!="} /\ \E i \in 1..2 : n.kids[i] = NullLit)

\* C26: a condition is monadic with the label Option if its text has a call
\* of .isSome(), .isNone(), .isEmpty() or .isDefined(), Either for
\* .isLeft() or .isRight(), Result for .isSuccess() or .isFailure(), and
\* Option if it is a comparison by ===, !==, == or != with null or
\* undefined on either side; every report of the two visitors carries
\* that label, every ternary and every top-level if / else with a monadic
\* condition is reported, and no other condition is reported.
C26_ConditionsClassified ==
  \A p \in VisitedPaths :
     NodeAt(ast, p).type \in {"IfStatement", "ConditionalExpression"}
       => ClassifiedAt(p, AnyComparison)

\* the same statement with the comparisons of null by == and != taken as
\* not monadic
C26_StrictNullComparisons ==
  \A p \in VisitedPaths :
     NodeAt(ast, p).type \in {"IfStatement", "ConditionalExpression"}
       => ClassifiedAt(p, NotLooseNull)

-----------------------------------------------------------------------------
(* prefer-do-notation: the fixes, applied and linted again.                *)

DoFixStatements ==
  {Const(Id("r"), Chain(b, links)) :
     b \in {Id("option1"), Call(Id("Option"), <<Id("x")>>)},
     links \in UNION {[1..k -> ChainLinks] : k \in 2..MaxChain}}
    \cup {Const(Id("city"), e) : e \in GuardChains}
    \cup {Const(Id("city"), Call(Id("run"), <<Arrow(<<>>, e)>>)) : e \in GuardChains}

DoFixPrograms ==
  {Program(imp, <<s>>) : imp \in {<<"Do">>, <<"DoAsync", "Option">>}, s \in DoFixStatements}

InitDoFix == InitRun("prefer-do-notation", DoFixPrograms, DoOptions, {"src/a.ts"})

NextDoFix ==
  \/ Visit_preferDoNotation_LogicalExpression
  \/ Visit_preferDoNotation_CallExpression
  \/ SkipNode
  \/ ApplyFix

SpecDoFix == InitDoFix /\ [][NextDoFix]_vars

\* the second pass has no report with the message of the applied fix on
\* the rewritten node
NotReportedAgain ==
  \A r \in Range(ReportsAt(applied.node)) : r.messageId # applied.messageId

\* C27: with Do or DoAsync imported, after the fix of a chain of flatMap
\* calls or of nested guards is applied and the rule has run again on the
\* rewritten text, no report with the same messageId is on the rewritten
\* node.
C27_DoFixIsIdempotent ==
  pass = 2 => NotReportedAgain

\* the same statement for the fix of nested guards alone
C27_GuardFixIsIdempotent ==
  (pass = 2 /\ applied.messageId = "preferDoForNestedChecks") => NotReportedAgain

-----------------------------------------------------------------------------
(* utils/functype-detection: the import registry, on files with named,     *)
(* default and namespace imports from 'functype' and from other modules.   *)

\* the most import declarations of an input file
MaxImports == 2

ImportSources == {"functype", "functype/option", "lodash"}

SpecifierLists ==
  {Specifiers(<<"Option", "Do">>), Specifiers(<<"Some">>),
   <<Node("ImportDefaultSpecifier", "F", <<>>)>>,
   <<Node("ImportNamespaceSpecifier", "ft", <<>>)>>,
   <<Node("ImportDefaultSpecifier", "F", <<>>),
     Node("ImportNamespaceSpecifier", "ft", <<>>)>>}

ImportDeclarations ==
  {Node("ImportDeclaration", src, specs) : src \in ImportSources, specs \in SpecifierLists}

ImportPrograms ==
  LET stmt == Const(Id("r"), Chain(Id("option1"),
                                   <<<<"flatMap", "f">>, <<"flatMap", "g">>, <<"flatMap", "h">>>>))
  IN {Node("Program", "", decls \o <<stmt>>) :
        decls \in UNION {[1..k -> ImportDeclarations] : k \in 0..MaxImports}}

InitImports == InitRun("prefer-do-notation", ImportPrograms, {NoOptions}, {"src/a.ts"})

NextImports ==
  \/ Visit_preferDoNotation_CallExpression
  \/ SkipNode

SpecImports == InitImports /\ [][NextImports]_vars

\* the specifiers of the import declarations of the file whose source is
\* 'functype'
QualifyingSpecifiers ==
  UNION {Range(ast.kids[d].kids) :
           d \in {d \in 1..Len(ast.kids) : /\ ast.kids[d].type = "ImportDeclaration"
                                            /\ ast.kids[d].name = "functype"}}

ContainerTypeNames == {"Option", "Either", "List", "LazyList", "Task", "Try"}

\* the name a specifier contributes to the registry
ContributedName(sp) ==
  CASE sp.type = "ImportSpecifier" -> sp.name
    [] sp.type = "ImportDefaultSpecifier" -> "default"
    [] sp.type = "ImportNamespaceSpecifier" -> "*"

\* C28: only the import declarations from 'functype' contribute to the
\* registry; a named import is in types iff its name is a container type
\* name and in functions otherwise, a default import is in functions, a
\* namespace import puts the wildcard in all three sets; all is the union of
\* types and functions, and a file without such an import has three empty
\* sets.
C28_ImportRegistry ==
  LET reg == getFunctypeImports(ast) IN
  /\ reg.all = reg.types \cup reg.functions
  /\ reg.all = {ContributedName(sp) : sp \in QualifyingSpecifiers}
  /\ \A sp \in QualifyingSpecifiers :
        CASE sp.type = "ImportSpecifier" ->
               /\ sp.name \in reg.types <=> sp.name \in ContainerTypeNames
               /\ sp.name \in reg.functions <=> sp.name \notin ContainerTypeNames
          [] sp.type = "ImportDefaultSpecifier" ->
               "default" \in reg.functions /\ "default" \notin reg.types
          [] sp.type = "ImportNamespaceSpecifier" ->
               "*" \in reg.types /\ "*" \in reg.functions
  /\ QualifyingSpecifiers = {} =>
        reg.types = {} /\ reg.functions = {} /\ reg.all = {}
  /\ \A r \in Range(reports) :
        r.messageId = "preferDoForChainedMethods" =>
          (r.fix # NoFix <=> \E sp \in QualifyingSpecifiers :
                               sp.type = "ImportSpecifier" /\ sp.name \in {"Do", "DoAsync"})

\* the rule has run on a file with named, default and namespace imports
\* from 'functype'
C28_Witness ==
  /\ todo = <<>>
  /\ reports # <<>>
  /\ text = "import { Option, Do } from 'functype'; import F, * as ft from 'functype'; const r = option1.flatMap(f).flatMap(g).flatMap(h)"
  /\ getFunctypeImports(ast) = [types |-> {"Option", "*"},
                                functions |-> {"Do", "default", "*"},
                                all |-> {"Option", "Do", "default", "*"}]

-----------------------------------------------------------------------------
(* prefer-fold: which monadic if statements end up without a report.       *)

\* the head of the if / else-if chain the if statement at path is part of
RECURSIVE ChainHeadOf(_, _)
ChainHeadOf(root, path) ==
  IF IsElseIfLink(root, path) THEN ChainHeadOf(root, ParentPath(path)) ELSE path

\* C29: no monadic if is lost: every visited if statement whose test is a
\* monadic check and whose own chain complexity is at least minComplexity
\* is reported itself, or is an else-if link of a chain whose head is
\* reported; that holds as well for an if that is the brace-less consequent
\* of another if and for an else-if after a head whose test is not monadic.
C29_NoMonadicIfLost ==
  \A p \in VisitedPaths :
     LET node == NodeAt(ast, p) IN
     (/\ node.type = "IfStatement"
      /\ isMonadicCheck(test(node)).isMonadic
      /\ ChainComplexity(node) >= minComplexity(options))
       => \/ PreferFoldReportsAt(p) # <<>>
          \/ /\ IsElseIfLink(ast, p)
             /\ PreferFoldReportsAt(ChainHeadOf(ast, p)) # <<>>

\* the same statement for the if statements whose chain has a head with a
\* monadic test and a parent that is no if statement
C29_UnderMonadicHeads ==
  \A p \in VisitedPaths :
     LET node == NodeAt(ast, p)
         head == ChainHeadOf(ast, p)
     IN (/\ node.type = "IfStatement"
         /\ isMonadicCheck(test(node)).isMonadic
         /\ ChainComplexity(node) >= minComplexity(options)
         /\ isMonadicCheck(test(NodeAt(ast, head))).isMonadic
         /\ NodeAt(ast, ParentPath(head)).type # "IfStatement")
          => \/ PreferFoldReportsAt(p) # <<>>
             \/ /\ IsElseIfLink(ast, p)
                /\ PreferFoldReportsAt(head) # <<>>

-----------------------------------------------------------------------------
(* prefer-list: the option allowReadonlyArrays.                            *)

\* the options with the other value of the boolean option key
WithOtherValue(opts, key) ==
  [k \in (DOMAIN opts \cup {key}) \ {"none"} |->
     IF k = key THEN ~NotFalse(opts, key) ELSE opts[k]]

\* C30: a run of prefer-list on the same file with the other value of
\* allowReadonlyArrays makes the same reports; every Array<T> and
\* ReadonlyArray<T> type reference of a file that is not exempt is reported
\* with preferList in both runs, the text of an Array<...> reference
\* starting with Array and never with readonly.
C30_ReadonlyOptionHasNoEffect ==
  LET other == [ast |-> ast, filename |-> filename,
                options |-> WithOtherValue(options, "allowReadonlyArrays")]
  IN /\ reports = ReportsOver("prefer-list", other, VisitedInOrder)
     /\ \A p \in VisitedPaths :
          LET n == NodeAt(ast, p) IN
          (n.type = "TSTypeReference" /\ n.name \in {"Array", "ReadonlyArray"}) =>
            /\ ~startsWith(GetText(n), "readonly")
            /\ ~ListExempt =>
                 /\ \E r \in Range(ReportsAt(p)) : r.messageId = "preferList"
                 /\ \E r \in Range(RuleReports("prefer-list", other, p)) :
                       r.messageId = "preferList"

\* the traversal is over for a file with an Array<string> annotation and
\* for one with a ReadonlyArray<string> annotation, with allowReadonlyArrays
\* false and absent, and the annotation is reported
C30_Witness ==
  /\ todo = <<>>
  /\ ~ListExempt
  /\ \E p \in VisitedPaths :
        /\ \/ /\ NodeAt(ast, p) = TRefOf("Array", <<TString>>)
              /\ options = [allowReadonlyArrays |-> FALSE]
           \/ /\ NodeAt(ast, p) = TRefOf("ReadonlyArray", <<TString>>)
              /\ options = NoOptions
        /\ \E r \in Range(ReportsAt(p)) : r.messageId = "preferList"

====
